---------------------------- MODULE Spec2Model ----------------------------
(***************************************************************************)
(* A model of the ppmpredictor library: the PPM language model (suffix     *)
(* trie with backoff links, contexts, getProbs), and the Predictor that    *)
(* owns named corpora, a live context and a bigram table.                  *)
(*                                                                         *)
(* Trie nodes live in one heap shared by all models, so that a node        *)
(* reference keeps its identity whichever model object it is handed to,    *)
(* as a JavaScript object reference does. Node 0 is null.                  *)
(*                                                                         *)
(* Probabilities are exact rationals: a vector of integer numerators over  *)
(* one common denominator. knAlpha = 0.49 and knBeta = 0.77 are 49/100 and *)
(* 77/100.                                                                 *)
(***************************************************************************)
EXTENDS Integers, Sequences, FiniteSets, TLC

VARIABLES
  heap,        \* Seq of Node records: every trie node ever created
  models,      \* Seq of PPMLanguageModel records [root, numNodes, maxOrder, useExclusion]
  vocab,       \* Vocabulary.symbols_: vocab[i + 1] is the symbol with id i
  ctxs,        \* Seq of Context handles [head, order] of the PPM specification
  probs,       \* result of the last getProbs call: [num, den, err]
  lastErr,     \* TRUE iff the last PPM operation raised
  nUpdates,    \* number of addSymbolAndUpdate calls made (bounded)
  config,      \* Predictor.config
  corpusKeys,  \* Object.keys(Predictor._corpora): the corpus names in insertion order
  corpora,     \* Predictor._corpora: name -> [model, enabled, lexicon, lexiconIndex, lexiconTrie]
  activeCorpora, \* Predictor._activeCorpora
  model,       \* Predictor.model: the index in models of the model it refers to
  context,     \* Predictor.context
  bigrams,     \* Predictor._bigrams
  totalBigrams, \* Predictor._totalBigrams
  ret,         \* the last Predictor call: [op, args, value]
  thrown,      \* TRUE iff the last Predictor call raised
  nCalls,      \* number of state-changing Predictor calls made (bounded)
  util         \* what a specification keeps beside the Predictor: the BKTree or
               \* PrefixTrie it builds, the options the constructor was given

ppmVars == <<heap, models, vocab, ctxs, probs, lastErr, nUpdates>>

predVars == <<config, corpusKeys, corpora, activeCorpora, model, context,
              bigrams, totalBigrams, ret, thrown, nCalls, util>>

vars == <<ppmVars, predVars>>

---------------------------------------------------------------------------
(* Bounds of the PPM specification *)

MaxOrder == 1
MaxUpdates == 2
MaxVocab == 3
MaxCtx == 2

---------------------------------------------------------------------------
(* Vocabulary and smoothing constants *)

rootSymbol == 0

rootSymbolName == "<R>"

\* Vocabulary constructor
Vocabulary == <<rootSymbolName>>

\* symbols_.indexOf(symbol): the id of a symbol, -1 when it is not registered
RECURSIVE indexFrom(_, _, _)
indexFrom(v, symbol, i) ==
  IF i > Len(v) THEN -1
  ELSE IF v[i] = symbol THEN i - 1
  ELSE indexFrom(v, symbol, i + 1)

indexOf(v, symbol) == indexFrom(v, symbol, 1)

\* Vocabulary.addSymbol: [vocab, id]
addSymbol(v, symbol) ==
  IF indexOf(v, symbol) >= 0
  THEN [vocab |-> v, id |-> indexOf(v, symbol)]
  ELSE [vocab |-> Append(v, symbol), id |-> Len(v)]

\* Vocabulary.size
size(v) == Len(v)

KnScale == 100
knAlpha == 49
knBeta == 77

---------------------------------------------------------------------------
(* Node *)

NullNode == 0

Node(sym, nxt) ==
  [child |-> NullNode, next |-> nxt, backoff |-> NullNode, count |-> 1, symbol |-> sym]

RECURSIVE findFrom(_, _, _)
findFrom(h, cur, symbol) ==
  IF cur = NullNode THEN NullNode
  ELSE IF h[cur].symbol = symbol THEN cur
  ELSE findFrom(h, h[cur].next, symbol)

findChildWithSymbol(h, node, symbol) == findFrom(h, h[node].child, symbol)

\* The children of a node, in sibling-list order
RECURSIVE siblings(_, _)
siblings(h, cur) ==
  IF cur = NullNode THEN <<>> ELSE <<cur>> \o siblings(h, h[cur].next)

children(h, node) == siblings(h, h[node].child)

Excluded(mask, symbol) == symbol \in mask

RECURSIVE sumCounts(_, _, _)
sumCounts(h, cs, mask) ==
  IF cs = <<>> THEN 0
  ELSE (IF Excluded(mask, h[Head(cs)].symbol) THEN 0 ELSE h[Head(cs)].count)
       + sumCounts(h, Tail(cs), mask)

totalChildrenCounts(h, node, mask) == sumCounts(h, children(h, node), mask)

---------------------------------------------------------------------------
(* PPMLanguageModel *)

PPMLanguageModel(root, maxOrder) ==
  [root |-> root, numNodes |-> 1, maxOrder |-> maxOrder, useExclusion |-> FALSE]

\* Mutant of addSymbolToNode_: a new node backs off to the root whatever
\* its depth, and the lower orders are not grown
addSymbolToNodeShallow_(h, numNodes, root, node, symbol) ==
  LET symbolNode == findChildWithSymbol(h, node, symbol) IN
  IF symbolNode # NullNode
  THEN [heap |-> [h EXCEPT ![symbolNode].count = @ + 1],
        numNodes |-> numNodes, node |-> symbolNode, err |-> FALSE]
  ELSE LET id == Len(h) + 1
           h1 == Append([h EXCEPT ![node].child = id], Node(symbol, h[node].child))
       IN [heap |-> [h1 EXCEPT ![id].backoff = root],
           numNodes |-> numNodes + 1, node |-> id, err |-> FALSE]
\* Result of addSymbolToNode_: the heap, the model's node counter, the node
\* holding the symbol, and whether the backoff assertion failed on the way
\* (the nodes linked before the failure stay linked).
RECURSIVE addSymbolToNode_(_, _, _, _, _)
addSymbolToNode_(h, numNodes, root, node, symbol) ==
  LET symbolNode == findChildWithSymbol(h, node, symbol) IN
  IF symbolNode # NullNode
  THEN [heap |-> [h EXCEPT ![symbolNode].count = @ + 1],
        numNodes |-> numNodes, node |-> symbolNode, err |-> FALSE]
  ELSE LET id == Len(h) + 1
           h1 == Append([h EXCEPT ![node].child = id], Node(symbol, h[node].child))
       IN IF node = root
          THEN [heap |-> [h1 EXCEPT ![id].backoff = root],
                numNodes |-> numNodes + 1, node |-> id, err |-> FALSE]
          ELSE IF h1[node].backoff = NullNode
          THEN [heap |-> h1, numNodes |-> numNodes + 1, node |-> id, err |-> TRUE]
          ELSE LET r == addSymbolToNode_(h1, numNodes + 1, root, h1[node].backoff, symbol)
               IN [heap |-> IF r.err THEN r.heap ELSE [r.heap EXCEPT ![id].backoff = r.node],
                   numNodes |-> r.numNodes, node |-> id, err |-> r.err]

Context(head, order) == [head |-> head, order |-> order]

createContext(m) == Context(m.root, 0)

cloneContext(ctx) == Context(ctx.head, ctx.order)

\* Mutant of extendOrBackoff: a child edge is followed whatever the order
RECURSIVE extendAlways(_, _, _, _)
extendAlways(h, m, ctx, symbol) ==
  IF ctx.head = NullNode THEN Context(m.root, 0)
  ELSE LET childNode == findChildWithSymbol(h, ctx.head, symbol)
       IN IF childNode # NullNode
          THEN Context(childNode, ctx.order + 1)
          ELSE extendAlways(h, m, Context(h[ctx.head].backoff, ctx.order - 1), symbol)
\* The while loop of addSymbolToContext
RECURSIVE extendOrBackoff(_, _, _, _)
extendOrBackoff(h, m, ctx, symbol) ==
  IF ctx.head = NullNode THEN Context(m.root, 0)
  ELSE LET childNode == IF ctx.order < m.maxOrder
                        THEN findChildWithSymbol(h, ctx.head, symbol)
                        ELSE NullNode
       IN IF childNode # NullNode
          THEN Context(childNode, ctx.order + 1)
          ELSE extendOrBackoff(h, m, Context(h[ctx.head].backoff, ctx.order - 1), symbol)

\* Mutant of addSymbolToContext: the symbol is not checked against the
\* size of the vocabulary
addSymbolToContextUnchecked(h, m, ctx, symbol, numSymbols) ==
  IF symbol <= rootSymbol THEN [ctx |-> ctx, err |-> FALSE]
  ELSE [ctx |-> extendOrBackoff(h, m, ctx, symbol), err |-> FALSE]
\* Result [ctx, err]; the trie is not touched.
addSymbolToContext(h, m, ctx, symbol, numSymbols) ==
  IF symbol <= rootSymbol THEN [ctx |-> ctx, err |-> FALSE]
  ELSE IF ~(symbol < numSymbols) THEN [ctx |-> ctx, err |-> TRUE]
  ELSE [ctx |-> extendOrBackoff(h, m, ctx, symbol), err |-> FALSE]

\* Mutant of pruneToMaxOrder: the context is left as long as it has grown
pruneNothing(h, m, ctx) == ctx
\* The while loop of addSymbolAndUpdate that prunes the ctx to maxOrder
RECURSIVE pruneToMaxOrder(_, _, _)
pruneToMaxOrder(h, m, ctx) ==
  IF ctx.order > m.maxOrder /\ ctx.head # NullNode
  THEN pruneToMaxOrder(h, m, Context(h[ctx.head].backoff, ctx.order - 1))
  ELSE ctx

\* Mutant of addSymbolAndUpdate: the context restarts at the root after
\* every update
addSymbolAndRestart(h, m, ctx, symbol, numSymbols) ==
  IF symbol <= rootSymbol
  THEN [heap |-> h, numNodes |-> m.numNodes, ctx |-> ctx, err |-> FALSE]
  ELSE IF ~(symbol < numSymbols)
  THEN [heap |-> h, numNodes |-> m.numNodes, ctx |-> ctx, err |-> TRUE]
  ELSE LET r == addSymbolToNode_(h, m.numNodes, m.root, ctx.head, symbol)
       IN [heap |-> r.heap, numNodes |-> r.numNodes, ctx |-> Context(m.root, 0),
           err |-> r.err]
\* Result [heap, numNodes, ctx, err]
addSymbolAndUpdate(h, m, ctx, symbol, numSymbols) ==
  IF symbol <= rootSymbol
  THEN [heap |-> h, numNodes |-> m.numNodes, ctx |-> ctx, err |-> FALSE]
  ELSE IF ~(symbol < numSymbols)
  THEN [heap |-> h, numNodes |-> m.numNodes, ctx |-> ctx, err |-> TRUE]
  ELSE LET r == addSymbolToNode_(h, m.numNodes, m.root, ctx.head, symbol)
           moved == pruneToMaxOrder(r.heap, m, Context(r.node, ctx.order + 1))
       IN IF r.err
          THEN [heap |-> r.heap, numNodes |-> r.numNodes, ctx |-> ctx, err |-> TRUE]
          ELSE [heap |-> r.heap, numNodes |-> r.numNodes, ctx |-> moved,
                err |-> moved.order > m.maxOrder]

---------------------------------------------------------------------------
(* getProbs, in exact arithmetic.                                          *)
(* An estimate is [num, den, mass, mask]: probs[i] = num[i]/den,           *)
(* totalMass = mass/den, mask = the set of excluded symbols.               *)

Scale(e, f) ==
  [e EXCEPT !.num = [i \in DOMAIN e.num |-> e.num[i] * f],
            !.den = e.den * f,
            !.mass = e.mass * f]

\* Mutant of Assign: the estimate is added but totalMass is not reduced
AssignKeepMass(e, symbol, pnum) ==
  [e EXCEPT !.num[symbol] = @ + pnum]

\* probs[symbol] += p; totalMass -= p, where p = pnum/e.den
Assign(e, symbol, pnum) ==
  [e EXCEPT !.num[symbol] = @ + pnum, !.mass = @ - pnum]

\* The inner loop over the children of one node. gamma and count are the
\* values fixed before the loop; e has already been brought to the
\* denominator den * (count + knAlpha), on which
\* p = gamma * (c - knBeta) / (count + knAlpha) has numerator
\* gamma * (KnScale * c - knBeta).
RECURSIVE childEstimates(_, _, _, _, _)
childEstimates(h, cs, gamma, useExclusion, e) ==
  IF cs = <<>> THEN e
  ELSE LET symbol == h[Head(cs)].symbol
           p == gamma * (KnScale * h[Head(cs)].count - knBeta)
           e1 == IF Excluded(e.mask, symbol) THEN e
                 ELSE [Assign(e, symbol, p) EXCEPT
                         !.mask = IF useExclusion THEN @ \cup {symbol} ELSE @]
       IN childEstimates(h, Tail(cs), gamma, useExclusion, e1)

\* The outer loop from context.head_ down the backoff links
RECURSIVE orderEstimates(_, _, _, _)
orderEstimates(h, node, useExclusion, e) ==
  IF node = NullNode THEN e
  ELSE LET count == totalChildrenCounts(h, node, e.mask)
           e1 == IF count > 0
                 THEN childEstimates(h, children(h, node), e.mass, useExclusion,
                                     Scale(e, KnScale * count + knAlpha))
                 ELSE e
       IN orderEstimates(h, h[node].backoff, useExclusion, e1)

\* Blending with the uniform distribution over the symbols not excluded
RECURSIVE uniformEstimates(_, _, _, _)
uniformEstimates(i, numSymbols, remainingMass, e) ==
  IF i >= numSymbols THEN e
  ELSE uniformEstimates(i + 1, numSymbols, remainingMass,
         IF Excluded(e.mask, i) THEN e ELSE Assign(e, i, remainingMass))

\* The last loop: p = totalMass / leftSymbols for each symbol in turn
RECURSIVE leftoverEstimates(_, _, _)
leftoverEstimates(i, numSymbols, e) ==
  IF i >= numSymbols THEN e
  ELSE LET leftSymbols == numSymbols - i
           e1 == IF e.mass % leftSymbols = 0 THEN e ELSE Scale(e, leftSymbols)
       IN leftoverEstimates(i + 1, numSymbols, Assign(e1, i, e1.mass \div leftSymbols))

RECURSIVE sumFrom(_, _, _)
sumFrom(f, i, n) == IF i >= n THEN 0 ELSE f[i] + sumFrom(f, i + 1, n)

\* Result [num, den, err]: the vector probs[i] = num[i]/den over
\* 0..numSymbols-1, err iff one of the three assertions fails.
getProbs(h, m, ctx, numSymbols) ==
  LET e0 == [num |-> [i \in 0..(numSymbols - 1) |-> 0], den |-> 1, mass |-> 1, mask |-> {}]
      e1 == orderEstimates(h, ctx.head, m.useExclusion, e0)
      numUnseenSymbols == Cardinality({i \in 1..(numSymbols - 1) : ~Excluded(e1.mask, i)})
      e2 == IF numUnseenSymbols > 0
            THEN uniformEstimates(1, numSymbols, e1.mass, Scale(e1, numUnseenSymbols))
            ELSE e1
      e3 == leftoverEstimates(1, numSymbols, e2)
      newProbMass == sumFrom(e3.num, 1, numSymbols)
  IN [num |-> e3.num, den |-> e3.den,
      err |-> (e1.mass < 0) \/ (e3.mass # 0) \/ (newProbMass # e3.den)]

---------------------------------------------------------------------------
(* Strings. A string is a sequence of one-character strings.               *)

\* The characters String.prototype.trim and the regular expression \s
\* treat as white space, among those the model's texts use
WhiteSpace == {" ", "\n", "\t"}

Digits == <<"0", "1", "2", "3", "4", "5", "6", "7", "8", "9">>

IsDigit(c) == \E i \in 1..10 : Digits[i] = c

DigitValue(c) == (CHOOSE i \in 1..10 : Digits[i] = c) - 1

\* String.prototype.toLowerCase, on the letters the model's texts use
LowerChar(c) ==
  CASE c = "A" -> "a"
    [] c = "B" -> "b"
    [] OTHER -> c

toLowerCase(str) == [i \in 1..Len(str) |-> LowerChar(str[i])]

RECURSIVE trimStart(_)
trimStart(str) ==
  IF str # <<>> /\ Head(str) \in WhiteSpace THEN trimStart(Tail(str)) ELSE str

RECURSIVE trimEnd(_)
trimEnd(str) ==
  IF str # <<>> /\ str[Len(str)] \in WhiteSpace
  THEN trimEnd(SubSeq(str, 1, Len(str) - 1))
  ELSE str

\* String.prototype.trim
trim(str) == trimEnd(trimStart(str))

\* String.prototype.split(sep) for a one-character separator: the pieces
\* between separators, empty ones included ("".split(sep) is [""]).
RECURSIVE splitFrom(_, _, _)
splitFrom(str, sep, piece) ==
  IF str = <<>> THEN <<piece>>
  ELSE IF Head(str) = sep THEN <<piece>> \o splitFrom(Tail(str), sep, <<>>)
  ELSE splitFrom(Tail(str), sep, Append(piece, Head(str)))

split(str, sep) == splitFrom(str, sep, <<>>)

\* String.prototype.split(/\s+/): a run of white space is one separator
RECURSIVE splitWsFrom(_, _, _)
splitWsFrom(str, piece, inRun) ==
  IF str = <<>> THEN <<piece>>
  ELSE IF Head(str) \in WhiteSpace
  THEN IF inRun THEN splitWsFrom(Tail(str), piece, TRUE)
       ELSE <<piece>> \o splitWsFrom(Tail(str), <<>>, TRUE)
  ELSE splitWsFrom(Tail(str), Append(piece, Head(str)), FALSE)

splitWhiteSpace(str) == splitWsFrom(str, <<>>, FALSE)

\* Array.prototype.filter
RECURSIVE filterNonEmpty(_)
filterNonEmpty(arr) ==
  IF arr = <<>> THEN <<>>
  ELSE (IF Len(Head(arr)) > 0 THEN <<Head(arr)>> ELSE <<>>) \o filterNonEmpty(Tail(arr))

\* Array.prototype.join
RECURSIVE join(_, _)
join(arr, sep) ==
  IF arr = <<>> THEN <<>>
  ELSE IF Len(arr) = 1 THEN arr[1]
  ELSE arr[1] \o sep \o join(Tail(arr), sep)

\* The absent optional argument, and null or undefined given for an argument
Null == <<"null">>

\* A value that is neither a string nor falsy: a number such as 42, an
\* object, an array
NotAString == <<"[object Object]">>

\* Mutant of notText: only the empty string is refused
onlyEmpty(text) == text = <<>>

\* !text || typeof text !== 'string'
notText(text) == text = <<>> \/ text = Null \/ text = NotAString

\* tokenizer.tokenize
tokenize(text) ==
  IF notText(text) THEN <<>> ELSE filterNonEmpty(splitWhiteSpace(trim(text)))

\* tokenizer.toCharArray
toCharArray(text) == IF notText(text) THEN <<>> ELSE text

\* JavaScript Numbers. The model holds the integers below E21 exactly, and
\* the multiples k * 10^21 (1 <= k <= 9) as k * E21: E21 stands for 10^21,
\* the least Number that converts to a string in exponent form. A double
\* near 10^21 has a spacing of 131072, so adding a count below 65536 to
\* k * 10^21 gives k * 10^21 again.
E21 == 100000000

\* a + b on Numbers
plus(a, b) == IF a + b >= E21 THEN ((a + b) \div E21) * E21 ELSE a + b

RECURSIVE decimal(_)
decimal(n) ==
  IF n < 10 THEN <<Digits[n + 1]>>
  ELSE decimal(n \div 10) \o <<Digits[(n % 10) + 1]>>

\* Number to string (template literal), for a count: decimal digits below
\* 10^21, exponent form from there on ("1e+21")
numberToString(n) ==
  IF n >= E21 THEN <<Digits[(n \div E21) + 1]>> \o <<"e", "+", "2", "1">>
  ELSE decimal(n)

\* The longest prefix of digits
RECURSIVE digitPrefix(_)
digitPrefix(str) ==
  IF str # <<>> /\ IsDigit(Head(str)) THEN <<Head(str)>> \o digitPrefix(Tail(str))
  ELSE <<>>

RECURSIVE digitsValue(_, _)
digitsValue(str, acc) ==
  IF str = <<>> THEN acc
  ELSE digitsValue(Tail(str), 10 * acc + DigitValue(Head(str)))

\* The Number a run of digits denotes: the nearest double. For a run of
\* more than 21 digits whose last 21 say less than 65536 that is the
\* leading part times 10^21.
digitPrefixValue(str) ==
  LET ds == digitPrefix(str) IN
  IF Len(ds) > 21 THEN digitsValue(SubSeq(ds, 1, Len(ds) - 21), 0) * E21
  ELSE digitsValue(ds, 0)

\* parseInt(str, 10): [nan, value]. Leading white space is skipped, one
\* sign is read, then the longest run of digits; NaN when there is none.
parseInt(str) ==
  LET s0 == trimStart(str)
      neg == s0 # <<>> /\ Head(s0) = "-"
      s1 == IF s0 # <<>> /\ Head(s0) \in {"-", "+"} THEN Tail(s0) ELSE s0
  IN IF s1 = <<>> \/ ~IsDigit(Head(s1))
     THEN [nan |-> TRUE, value |-> 0]
     ELSE [nan |-> FALSE,
           value |-> IF neg THEN 0 - digitPrefixValue(s1) ELSE digitPrefixValue(s1)]

---------------------------------------------------------------------------
(* The bigram table: a JavaScript Map from key to count, which iterates in *)
(* insertion order, as a sequence of [key, count] entries.                 *)

RECURSIVE mapFind(_, _, _)
mapFind(map, key, i) ==
  IF i > Len(map) THEN 0
  ELSE IF map[i].key = key THEN i
  ELSE mapFind(map, key, i + 1)

\* map.get(key) || 0
mapGet(map, key) ==
  IF mapFind(map, key, 1) = 0 THEN 0 ELSE map[mapFind(map, key, 1)].count

\* map.set(key, count): an existing key keeps its place
mapSet(map, key, count) ==
  IF mapFind(map, key, 1) = 0
  THEN Append(map, [key |-> key, count |-> count])
  ELSE [map EXCEPT ![mapFind(map, key, 1)].count = count]

\* The loop of _learnBigramsFromText over the consecutive pairs from i on
RECURSIVE learnPairs(_, _, _)
learnPairs(bg, words, i) ==
  IF i > Len(words) - 1 THEN bg
  ELSE LET word1 == words[i]
           word2 == words[i + 1]
           bigramKey == word1 \o <<" ">> \o word2
       IN IF Len(word1) = 0 \/ Len(word2) = 0
          THEN learnPairs(bg, words, i + 1)
          ELSE learnPairs([bigrams |-> mapSet(bg.bigrams, bigramKey,
                                               plus(mapGet(bg.bigrams, bigramKey), 1)),
                           totalBigrams |-> plus(bg.totalBigrams, 1)],
                          words, i + 1)

\* Predictor._learnBigramsFromText, on bg = [bigrams, totalBigrams]
learnBigramsFromText(bg, text, caseSensitive) ==
  IF notText(text) THEN bg
  ELSE LET words == tokenize(text)
           normalizedWords ==
             [i \in 1..Len(words) |-> IF caseSensitive THEN words[i] ELSE toLowerCase(words[i])]
       IN learnPairs(bg, normalizedWords, 1)

\* The value of a destructured array element that does not exist
Undefined == <<"undefined">>

\* The first loop of predictNextWord: [counts, totalCount]
RECURSIVE nextWordCounts(_, _, _, _)
nextWordCounts(map, normalized, i, acc) ==
  IF i > Len(map) THEN acc
  ELSE LET parts == split(map[i].key, " ")
           word1 == parts[1]
           word2 == IF Len(parts) >= 2 THEN parts[2] ELSE Undefined
       IN nextWordCounts(map, normalized, i + 1,
            IF word1 = normalized
            THEN [counts |-> mapSet(acc.counts, word2, plus(mapGet(acc.counts, word2), map[i].count)),
                  totalCount |-> plus(acc.totalCount, map[i].count)]
            ELSE acc)

RECURSIVE Gcd(_, _)
Gcd(a, b) == IF b = 0 THEN a ELSE Gcd(b, a % b)

\* A prediction {text, probability}, the probability as the fraction num/den
Prediction(text, num, den) == [text |-> text, num |-> num, den |-> den]

\* a.probability > b.probability
MoreProbable(a, b) ==
  IF a.den = b.den THEN a.num > b.num
  ELSE a.num * (b.den \div Gcd(a.den, b.den)) > b.num * (a.den \div Gcd(a.den, b.den))

\* Array.prototype.sort((a, b) => b.probability - a.probability): a stable
\* sort by probability, descending (insertion of each element in turn)
RECURSIVE insertByProbability(_, _)
insertByProbability(sorted, x) ==
  IF sorted = <<>> THEN <<x>>
  ELSE IF MoreProbable(x, Head(sorted)) THEN <<x>> \o sorted
  ELSE <<Head(sorted)>> \o insertByProbability(Tail(sorted), x)

RECURSIVE sortByProbability(_)
sortByProbability(arr) ==
  IF arr = <<>> THEN <<>>
  ELSE insertByProbability(sortByProbability(SubSeq(arr, 1, Len(arr) - 1)), arr[Len(arr)])

\* The whole array, whatever n
sliceNothing(arr, n) == arr

\* Array.prototype.slice(0, n) for n >= 0
slice(arr, n) == SubSeq(arr, 1, IF n < Len(arr) THEN n ELSE Len(arr))

\* Predictor.predictNextWord
predictNextWord(map, currentWord, maxPredictions, caseSensitive) ==
  IF notText(currentWord) THEN <<>>
  ELSE LET normalized == IF caseSensitive THEN currentWord ELSE toLowerCase(currentWord)
           found == nextWordCounts(map, normalized, 1, [counts |-> <<>>, totalCount |-> 0])
           predictions == [i \in 1..Len(found.counts) |->
                             Prediction(found.counts[i].key, found.counts[i].count,
                                        found.totalCount)]
       IN slice(sortByProbability(predictions), maxPredictions)

\* Predictor.exportBigrams
exportBigrams(map) ==
  join([i \in 1..Len(map) |-> map[i].key \o <<" ">> \o numberToString(map[i].count)], <<"\n">>)

\* The loop of importBigrams over the lines
RECURSIVE importLines(_, _)
importLines(bg, lines) ==
  IF lines = <<>> THEN bg
  ELSE LET trimmed == trim(Head(lines))
           parts == split(trimmed, " ")
           count == parseInt(parts[Len(parts)])
           bigramKey == join(SubSeq(parts, 1, Len(parts) - 1), <<" ">>)
       IN IF trimmed = <<>> \/ Len(parts) < 3 \/ count.nan \/ count.value <= 0
          THEN importLines(bg, Tail(lines))
          ELSE importLines([bigrams |-> mapSet(bg.bigrams, bigramKey,
                                                plus(mapGet(bg.bigrams, bigramKey), count.value)),
                            totalBigrams |-> plus(bg.totalBigrams, count.value)],
                           Tail(lines))

\* Predictor.importBigrams, on bg = [bigrams, totalBigrams]
importBigrams(bg, bigramText) ==
  IF notText(bigramText) THEN bg ELSE importLines(bg, split(bigramText, "\n"))

---------------------------------------------------------------------------
(* PrefixTrie: the trie holding a set of words is its set of nodes (one    *)
(* per prefix of an inserted word, the root being the empty prefix) and    *)
(* the nodes marked isWord.                                                *)

PrefixTrie == [nodes |-> {<<>>}, words |-> {}]

\* PrefixTrie.insert
trieInsert(trie, word) ==
  [nodes |-> trie.nodes \cup {SubSeq(word, 1, i) : i \in 0..Len(word)},
   words |-> trie.words \cup {word}]

\* The order String.prototype.localeCompare gives the model's characters
Collation == <<" ", "0", "1", "2", "a", "A", "b", "B", "c", "é">>

CollationRank(c) == CHOOSE i \in 1..Len(Collation) : Collation[i] = c

\* The children of a trie node in ascending order
RECURSIVE childrenAscending(_, _, _)
childrenAscending(trie, path, i) ==
  IF i = 0 THEN <<>>
  ELSE childrenAscending(trie, path, i - 1)
       \o (IF Append(path, Collation[i]) \in trie.nodes
           THEN <<Append(path, Collation[i])>> ELSE <<>>)

\* The children of a trie node, sorted with b.localeCompare(a): descending
RECURSIVE childrenDescending(_, _, _)
childrenDescending(trie, path, i) ==
  IF i = 0 THEN <<>>
  ELSE (IF Append(path, Collation[i]) \in trie.nodes
        THEN <<Append(path, Collation[i])>> ELSE <<>>)
       \o childrenDescending(trie, path, i - 1)

\* The while loop of PrefixTrie.collect
RECURSIVE collectLoop(_, _, _, _)
collectLoop(trie, stack, results, limit) ==
  IF ~(Len(stack) > 0 /\ Len(results) < limit) THEN results
  ELSE LET current == stack[Len(stack)]
           popped == SubSeq(stack, 1, Len(stack) - 1)
       IN collectLoop(trie,
                      popped \o childrenDescending(trie, current, Len(Collation)),
                      IF current \in trie.words THEN Append(results, current) ELSE results,
                      limit)

\* PrefixTrie.collect without the descent along the prefix
collectFromRoot(trie, prefix, limit) == collectLoop(trie, <<<<>>>>, <<>>, limit)

\* PrefixTrie.collect
collect(trie, prefix, limit) ==
  IF prefix \notin trie.nodes THEN <<>>
  ELSE collectLoop(trie, <<prefix>>, <<>>, limit)

---------------------------------------------------------------------------
(* Fuzzy matching. levenshteinDistance counts whole edits;                 *)
(* keyboardAwareDistance, whose substitutions between adjacent keys cost   *)
(* 0.5, is counted in halves. The BK-tree, which works with either, keeps  *)
(* every distance in halves.                                               *)

\* Math.min of three numbers
min3(x, y, z) ==
  IF x <= y /\ x <= z THEN x ELSE IF y <= z THEN y ELSE z

\* Row i of the table with deletions that cost 2
RECURSIVE levenshteinRowDearDeletion(_, _, _, _, _)
levenshteinRowDearDeletion(prev, c, str2, j, row) ==
  IF j > Len(str2) THEN row
  ELSE levenshteinRowDearDeletion(prev, c, str2, j + 1,
         Append(row, IF c = str2[j] THEN prev[j]
                     ELSE min3(prev[j + 1] + 2, row[j] + 1, prev[j] + 1)))

\* Row i of the table dp of levenshteinDistance from row i - 1, for the
\* character c = str1[i - 1]; row holds the columns 0..j - 1 already filled
RECURSIVE levenshteinRow(_, _, _, _, _)
levenshteinRow(prev, c, str2, j, row) ==
  IF j > Len(str2) THEN row
  ELSE levenshteinRow(prev, c, str2, j + 1,
         Append(row, IF c = str2[j] THEN prev[j]
                     ELSE min3(prev[j + 1] + 1, row[j] + 1, prev[j] + 1)))

\* The rows of dp, from row i - 1 to the last
RECURSIVE levenshteinRows(_, _, _, _)
levenshteinRows(prev, str1, str2, i) ==
  IF i > Len(str1) THEN prev
  ELSE levenshteinRows(levenshteinRow(prev, str1[i], str2, 1, <<i>>), str1, str2, i + 1)

\* levenshteinDistance: dp[len1][len2]
levenshteinDistance(str1, str2) ==
  levenshteinRows([j \in 1..(Len(str2) + 1) |-> j - 1], str1, str2, 1)[Len(str2) + 1]

\* qwertyAdjacency
qwertyAdjacency ==
  [q |-> <<"w", "a", "s">>,
   w |-> <<"q", "e", "a", "s", "d">>,
   e |-> <<"w", "r", "s", "d", "f">>,
   r |-> <<"e", "t", "d", "f", "g">>,
   t |-> <<"r", "y", "f", "g", "h">>,
   y |-> <<"t", "u", "g", "h", "j">>,
   u |-> <<"y", "i", "h", "j", "k">>,
   i |-> <<"u", "o", "j", "k", "l">>,
   o |-> <<"i", "p", "k", "l">>,
   p |-> <<"o", "l">>,
   a |-> <<"q", "w", "s", "z", "x">>,
   s |-> <<"q", "w", "e", "a", "d", "z", "x", "c">>,
   d |-> <<"w", "e", "r", "s", "f", "x", "c", "v">>,
   f |-> <<"e", "r", "t", "d", "g", "c", "v", "b">>,
   g |-> <<"r", "t", "y", "f", "h", "v", "b", "n">>,
   h |-> <<"t", "y", "u", "g", "j", "b", "n", "m">>,
   j |-> <<"y", "u", "i", "h", "k", "n", "m">>,
   k |-> <<"u", "i", "o", "j", "l", "m">>,
   l |-> <<"i", "o", "p", "k">>,
   z |-> <<"a", "s", "x">>,
   x |-> <<"a", "s", "d", "z", "c">>,
   c |-> <<"s", "d", "f", "x", "v">>,
   v |-> <<"d", "f", "g", "c", "b">>,
   b |-> <<"f", "g", "h", "v", "n">>,
   n |-> <<"g", "h", "j", "b", "m">>,
   m |-> <<"h", "j", "k", "n">>]

\* areKeysAdjacent
areKeysAdjacent(char1, char2, adjacency) ==
  LET c1 == LowerChar(char1)
      c2 == LowerChar(char2)
  IN c1 \in DOMAIN adjacency /\ \E n \in 1..Len(adjacency[c1]) : adjacency[c1][n] = c2

\* Row i of the table dp of keyboardAwareDistance, in halves
RECURSIVE keyboardAwareRow(_, _, _, _, _, _)
keyboardAwareRow(prev, c, str2, j, row, adjacency) ==
  IF j > Len(str2) THEN row
  ELSE keyboardAwareRow(prev, c, str2, j + 1,
         Append(row, IF c = str2[j] THEN prev[j]
                     ELSE min3(prev[j + 1] + 2, row[j] + 2,
                               prev[j] + (IF areKeysAdjacent(c, str2[j], adjacency)
                                          THEN 1 ELSE 2))),
         adjacency)

RECURSIVE keyboardAwareRows(_, _, _, _, _)
keyboardAwareRows(prev, str1, str2, i, adjacency) ==
  IF i > Len(str1) THEN prev
  ELSE keyboardAwareRows(keyboardAwareRow(prev, str1[i], str2, 1, <<2 * i>>, adjacency),
                         str1, str2, i + 1, adjacency)

\* keyboardAwareDistance, in halves
keyboardAwareDistance(str1, str2, adjacency) ==
  keyboardAwareRows([j \in 1..(Len(str2) + 1) |-> 2 * (j - 1)], str1, str2, 1,
                    adjacency)[Len(str2) + 1]

\* new BKTree(distanceFn): no root; the distance function is
\* levenshteinDistance, or keyboardAwareDistance over the QWERTY map
BKTree(keyboardAware) == [keyboardAware |-> keyboardAware, nodes |-> <<>>]

\* new BKTree(distanceFn) with the distance function _buildCorpusLexicon
\* makes of a resolved custom adjacency map
BKTreeOver(adjacency) ==
  [keyboardAware |-> TRUE, adjacency |-> adjacency, nodes |-> <<>>]

\* this.distanceFn(a, b) of a BK-tree, in halves: keyboardAwareDistance
\* over the tree's adjacency map (adjacency || getQwertyAdjacency()), or
\* levenshteinDistance
distanceFn(tree, a, b) ==
  IF tree.keyboardAware
  THEN keyboardAwareDistance(a, b, IF "adjacency" \in DOMAIN tree THEN tree.adjacency
                                   ELSE qwertyAdjacency)
  ELSE 2 * levenshteinDistance(a, b)

\* new BKNode(term): children is a Map from distance (key) to child node
\* (count, the node's place in the tree's nodes)
BKNode(term) == [term |-> term, children |-> <<>>]

\* The while loop of BKTree.insert, at the node current
RECURSIVE bkInsertLoop(_, _, _)
bkInsertLoop(tree, term, current) ==
  LET distance == distanceFn(tree, term, tree.nodes[current].term)
      child == mapFind(tree.nodes[current].children, distance, 1)
  IN IF distance = 0 THEN tree
     ELSE IF child # 0
     THEN bkInsertLoop(tree, term, tree.nodes[current].children[child].count)
     ELSE [tree EXCEPT
             !.nodes = Append([@ EXCEPT ![current].children =
                                 Append(@, [key |-> distance, count |-> Len(tree.nodes) + 1])],
                              BKNode(term))]

\* BKTree.insert
bkInsert(tree, term) ==
  IF term = <<>> THEN tree
  ELSE IF tree.nodes = <<>> THEN [tree EXCEPT !.nodes = <<BKNode(term)>>]
  ELSE bkInsertLoop(tree, term, 1)

\* BKTree.isEmpty
isEmpty(tree) == tree.nodes = <<>>

\* bkPushed with the bounds of the window left out
RECURSIVE bkPushedInside(_, _, _)
bkPushedInside(entries, lower, upper) ==
  IF entries = <<>> THEN <<>>
  ELSE (IF Head(entries).key > lower /\ Head(entries).key < upper
        THEN <<Head(entries).count>> ELSE <<>>)
       \o bkPushedInside(Tail(entries), lower, upper)

\* The children of a node that the search pushes, in the order of the Map
RECURSIVE bkPushed(_, _, _)
bkPushed(entries, lower, upper) ==
  IF entries = <<>> THEN <<>>
  ELSE (IF Head(entries).key >= lower /\ Head(entries).key <= upper
        THEN <<Head(entries).count>> ELSE <<>>)
       \o bkPushed(Tail(entries), lower, upper)

\* The while loop of BKTree.search
RECURSIVE bkSearchLoop(_, _, _, _, _)
bkSearchLoop(tree, query, maxDistance, stack, results) ==
  IF stack = <<>> THEN results
  ELSE LET node == tree.nodes[stack[Len(stack)]]
           distance == distanceFn(tree, query, node.term)
       IN bkSearchLoop(tree, query, maxDistance,
            SubSeq(stack, 1, Len(stack) - 1)
              \o bkPushed(node.children, distance - maxDistance, distance + maxDistance),
            IF distance <= maxDistance
            THEN Append(results, [term |-> node.term, distance |-> distance])
            ELSE results)

\* BKTree.search, maxDistance and the distances of the results in halves
bkSearch(tree, query, maxDistance) ==
  IF tree.nodes = <<>> \/ maxDistance < 0 THEN <<>>
  ELSE bkSearchLoop(tree, query, maxDistance, <<1>>, <<>>)

---------------------------------------------------------------------------
(* Predictor: corpora and their lexicon structures *)

\* Property names every JavaScript object inherits from Object.prototype,
\* among those the model's calls use: this._corpora is an object literal,
\* and this._corpora[name] is a (truthy) function for such a name
InheritedNames == {"constructor"}

\* this._corpora[corpusKey] is truthy
corpusExists(cs, corpusKey) == corpusKey \in DOMAIN cs \/ corpusKey \in InheritedNames

\* The value undefined in Predictor.model, which otherwise refers to a model
UndefinedModel == 0

\* this._corpora[corpusKey].model
modelOf(cs, corpusKey) ==
  IF corpusKey \in DOMAIN cs THEN cs[corpusKey].model ELSE UndefinedModel

\* Array.prototype.includes / Set.prototype.has on a sequence
includes(arr, x) == \E i \in 1..Len(arr) : arr[i] = x

\* Array.prototype.indexOf for an array of words: 0-based, -1 when absent
RECURSIVE arrayIndexFrom(_, _, _)
arrayIndexFrom(arr, x, i) ==
  IF i > Len(arr) THEN -1
  ELSE IF arr[i] = x THEN i - 1
  ELSE arrayIndexFrom(arr, x, i + 1)

arrayIndexOf(arr, x) == arrayIndexFrom(arr, x, 1)

\* Array.prototype.filter(key => key !== x)
RECURSIVE without(_, _)
without(arr, x) ==
  IF arr = <<>> THEN <<>>
  ELSE (IF Head(arr) = x THEN <<>> ELSE <<Head(arr)>>) \o without(Tail(arr), x)

\* The loop of _buildCorpusLexicon over the lexicon entries
RECURSIVE indexEntries(_, _, _)
indexEntries(lexicon, caseSensitive, acc) ==
  IF lexicon = <<>> THEN acc
  ELSE LET entry == Head(lexicon)
           normalized == IF caseSensitive THEN entry ELSE toLowerCase(entry)
       IN indexEntries(Tail(lexicon), caseSensitive,
            IF Len(entry) = 0 \/ includes(acc.lexiconIndex, normalized) THEN acc
            ELSE [acc EXCEPT !.lexiconIndex = Append(@, normalized),
                             !.lexiconTree = bkInsert(@, normalized),
                             !.lexiconTrie = trieInsert(@, normalized)])

\* The inner loop of _normalizeAdjacencyMap: the first characters of the
\* non-empty neighbours, lowercased, each once
RECURSIVE normalizeNeighbours(_, _)
normalizeNeighbours(neighbours, acc) ==
  IF neighbours = <<>> THEN acc
  ELSE LET neighbour == Head(neighbours)
       IN normalizeNeighbours(Tail(neighbours),
            IF Len(neighbour) = 0 \/ includes(acc, LowerChar(neighbour[1])) THEN acc
            ELSE Append(acc, LowerChar(neighbour[1])))

\* Predictor._normalizeAdjacencyMap over Object.entries(adjacencyMap), a
\* sequence of [key, neighbours]: keys become their first character
\* lowercased; an empty key is skipped
RECURSIVE normalizeAdjacencyMap(_, _)
normalizeAdjacencyMap(entries, normalized) ==
  IF entries = <<>> THEN normalized
  ELSE LET key == Head(entries).key
           base == LowerChar(key[1])
           before == IF base \in DOMAIN normalized THEN normalized[base] ELSE <<>>
       IN normalizeAdjacencyMap(Tail(entries),
            IF Len(key) = 0 THEN normalized
            ELSE [k \in DOMAIN normalized \cup {base} |->
                    IF k = base THEN normalizeNeighbours(Head(entries).neighbours, before)
                    ELSE normalized[k]])

\* Predictor._resolveAdjacencyMap: null without keyboardAware, the
\* normalized config.keyboardAdjacencyMap when there is one, the QWERTY
\* table otherwise
resolveAdjacencyMap(cfg) ==
  IF ~cfg.keyboardAware THEN Null
  ELSE IF "keyboardAdjacencyMap" \in DOMAIN cfg
       THEN normalizeAdjacencyMap(cfg.keyboardAdjacencyMap, <<>>)
  ELSE qwertyAdjacency

\* Predictor._buildCorpusLexicon: the corpus with its index, tree and trie
\* rebuilt; a tree without an adjacency map of its own measures with the
\* QWERTY table
buildCorpusLexicon(corpus, cfg) ==
  indexEntries(corpus.lexicon, cfg.caseSensitive,
               [corpus EXCEPT !.lexiconIndex = <<>>,
                              !.lexiconTree =
                                 IF cfg.keyboardAware /\ "keyboardAdjacencyMap" \in DOMAIN cfg
                                 THEN BKTreeOver(resolveAdjacencyMap(cfg))
                                 ELSE BKTree(cfg.keyboardAware),
                              !.lexiconTrie = PrefixTrie])

\* A corpus object as the constructor and addTrainingCorpus store it
Corpus(mid, enabled, lexicon) ==
  [model |-> mid, enabled |-> enabled, lexicon |-> lexicon,
   lexiconIndex |-> <<>>, lexiconTree |-> BKTree(FALSE), lexiconTrie |-> PrefixTrie]

\* The result of a training loop: [heap, numNodes, vocab, ctx, err]
RECURSIVE trainChars(_, _, _, _, _)
trainChars(h, m, v, ctx, chars) ==
  IF chars = <<>>
  THEN [heap |-> h, numNodes |-> m.numNodes, vocab |-> v, ctx |-> ctx, err |-> FALSE]
  ELSE LET sym == addSymbol(v, Head(chars))
           r == addSymbolAndUpdate(h, m, ctx, sym.id, size(sym.vocab))
       IN IF r.err
          THEN [heap |-> r.heap, numNodes |-> r.numNodes, vocab |-> sym.vocab,
                ctx |-> r.ctx, err |-> TRUE]
          ELSE trainChars(r.heap, [m EXCEPT !.numNodes = r.numNodes], sym.vocab,
                          r.ctx, Tail(chars))

---------------------------------------------------------------------------
(* Predictor: character predictions *)

\* Vocabulary.getSymbol: the id of a registered symbol, negative otherwise
getSymbol(v, symbol) == indexOf(v, symbol)

\* The loop that feeds an override string to a disposable context with
\* addSymbolToContext, registering the characters it has not seen:
\* [vocab, ctx, err]
RECURSIVE feedContext(_, _, _, _, _)
feedContext(h, m, v, ctx, chars) ==
  IF chars = <<>> THEN [vocab |-> v, ctx |-> ctx, err |-> FALSE]
  ELSE LET v1 == IF getSymbol(v, Head(chars)) < 0 THEN addSymbol(v, Head(chars)).vocab ELSE v
           r == addSymbolToContext(h, m, ctx, getSymbol(v1, Head(chars)), size(v1))
       IN IF r.err THEN [vocab |-> v1, ctx |-> r.ctx, err |-> TRUE]
          ELSE feedContext(h, m, v1, r.ctx, Tail(chars))

\* The loop turning a probability vector into predictions, symbols 1..n-1
RECURSIVE toPredictions(_, _, _)
toPredictions(v, p, i) ==
  IF i >= Len(v) \/ i \notin DOMAIN p.num THEN <<>>
  ELSE (IF p.num[i] > 0 THEN <<Prediction(<<v[i + 1]>>, p.num[i], p.den)>> ELSE <<>>)
       \o toPredictions(v, p, i + 1)

\* Predictor._predictFromSingleCorpus: [value, vocab, err]
predictFromSingleCorpus(h, ms, v, cs, live, corpusKey, ctxArg, maxPredictions) ==
  IF modelOf(cs, corpusKey) = UndefinedModel
  THEN [value |-> <<>>, vocab |-> v, err |-> TRUE]
  ELSE
  LET m == ms[cs[corpusKey].model]
      fed == IF ctxArg # Null
             THEN feedContext(h, m, v, createContext(m), toCharArray(ctxArg))
             ELSE [vocab |-> v,
                   ctx |-> IF corpusKey = "default" THEN live ELSE createContext(m),
                   err |-> FALSE]
      p == getProbs(h, m, fed.ctx, size(fed.vocab))
  IN IF fed.err THEN [value |-> <<>>, vocab |-> fed.vocab, err |-> TRUE]
     ELSE IF p.err THEN [value |-> <<>>, vocab |-> fed.vocab, err |-> TRUE]
     ELSE [value |-> slice(sortByProbability(toPredictions(fed.vocab, p, 1)), maxPredictions),
           vocab |-> fed.vocab, err |-> FALSE]

\* a/b + c/d, in lowest terms
AddFractions(a, b, c, d) ==
  LET k == Gcd(c, d)
      c1 == c \div k
      d1 == d \div k
      g == Gcd(b, d1)
      n == a * (d1 \div g) + c1 * (b \div g)
      q == (b \div g) * d1
      r == Gcd(n, q)
  IN [num |-> n \div r, den |-> q \div r]

\* Mutant of accumulate: the probability replaces the total instead of
\* being added to it
RECURSIVE accumulateLast(_, _, _, _)
accumulateLast(all, v, p, i) ==
  IF i >= Len(v) \/ i \notin DOMAIN p.num THEN all
  ELSE IF p.num[i] > 0
  THEN LET char == <<v[i + 1]>>
           at == mapFind(all, char, 1)
           entry == [key |-> char, num |-> p.num[i], den |-> p.den,
                     count |-> IF at = 0 THEN 1 ELSE all[at].count + 1]
       IN accumulateLast(IF at = 0 THEN Append(all, entry) ELSE [all EXCEPT ![at] = entry],
                         v, p, i + 1)
  ELSE accumulateLast(all, v, p, i + 1)
\* The accumulation loop of _predictFromMultipleCorpora over one corpus's
\* probabilities: all maps a character to {totalProb, count}
RECURSIVE accumulate(_, _, _, _)
accumulate(all, v, p, i) ==
  IF i >= Len(v) \/ i \notin DOMAIN p.num THEN all
  ELSE IF p.num[i] > 0
  THEN LET char == <<v[i + 1]>>
           at == mapFind(all, char, 1)
           old == IF at = 0 THEN [num |-> 0, den |-> 1, count |-> 0]
                  ELSE [num |-> all[at].num, den |-> all[at].den, count |-> all[at].count]
           sum == AddFractions(old.num, old.den, p.num[i], p.den)
           entry == [key |-> char, num |-> sum.num, den |-> sum.den, count |-> old.count + 1]
       IN accumulate(IF at = 0 THEN Append(all, entry) ELSE [all EXCEPT ![at] = entry],
                     v, p, i + 1)
  ELSE accumulate(all, v, p, i + 1)

\* The loop of _predictFromMultipleCorpora over the active corpora:
\* [all, vocab, err]
RECURSIVE collectPredictions(_, _, _, _, _, _, _, _)
collectPredictions(h, ms, v, cs, live, keys, ctxArg, all) ==
  IF keys = <<>> THEN [all |-> all, vocab |-> v, err |-> FALSE]
  ELSE IF modelOf(cs, Head(keys)) = UndefinedModel THEN [all |-> all, vocab |-> v, err |-> TRUE]
  ELSE LET corpusKey == Head(keys)
           m == ms[cs[corpusKey].model]
           fed == IF ctxArg # Null
                  THEN feedContext(h, m, v, createContext(m), toCharArray(ctxArg))
                  ELSE [vocab |-> v,
                        ctx |-> IF corpusKey = "default" THEN live ELSE createContext(m),
                        err |-> FALSE]
           p == getProbs(h, m, fed.ctx, size(fed.vocab))
       IN IF fed.err THEN [all |-> all, vocab |-> fed.vocab, err |-> TRUE]
          ELSE IF p.err THEN [all |-> all, vocab |-> fed.vocab, err |-> TRUE]
          ELSE collectPredictions(h, ms, fed.vocab, cs, live, Tail(keys), ctxArg,
                                  accumulate(all, fed.vocab, p, 1))

\* Predictor._predictFromMultipleCorpora: [value, vocab, err]
predictFromMultipleCorpora(h, ms, v, cs, live, active, ctxArg, maxPredictions) ==
  LET got == collectPredictions(h, ms, v, cs, live, active, ctxArg, <<>>)
      predictions == [i \in 1..Len(got.all) |->
                        Prediction(got.all[i].key, got.all[i].num,
                                   got.all[i].den * got.all[i].count)]
  IN IF got.err THEN [value |-> <<>>, vocab |-> got.vocab, err |-> TRUE]
     ELSE [value |-> slice(sortByProbability(predictions), maxPredictions),
           vocab |-> got.vocab, err |-> FALSE]

\* Predictor.predictNextCharacter: [value, vocab, err]
predictNextCharacter(h, ms, v, cs, live, active, ctxArg, maxPredictions) ==
  IF Len(active) = 1
  THEN predictFromSingleCorpus(h, ms, v, cs, live, active[1], ctxArg, maxPredictions)
  ELSE predictFromMultipleCorpora(h, ms, v, cs, live, active, ctxArg, maxPredictions)

\* The vocabulary after the first round of a loop that registers the
\* character and then fails
firstRegistered(v, chars) ==
  IF chars # <<>> /\ getSymbol(v, Head(chars)) < 0 THEN addSymbol(v, Head(chars)).vocab ELSE v

\* The loop of addToContext over the characters: [heap, numNodes, vocab, ctx, err]
RECURSIVE addChars(_, _, _, _, _, _)
addChars(h, m, v, ctx, chars, shouldUpdate) ==
  IF chars = <<>>
  THEN [heap |-> h, numNodes |-> m.numNodes, vocab |-> v, ctx |-> ctx, err |-> FALSE]
  ELSE LET v1 == IF getSymbol(v, Head(chars)) < 0 THEN addSymbol(v, Head(chars)).vocab ELSE v
           symbolId == getSymbol(v1, Head(chars))
           r == IF shouldUpdate
                THEN addSymbolAndUpdate(h, m, ctx, symbolId, size(v1))
                ELSE [heap |-> h, numNodes |-> m.numNodes,
                      ctx |-> addSymbolToContext(h, m, ctx, symbolId, size(v1)).ctx,
                      err |-> addSymbolToContext(h, m, ctx, symbolId, size(v1)).err]
       IN IF r.err
          THEN [heap |-> r.heap, numNodes |-> r.numNodes, vocab |-> v1, ctx |-> r.ctx,
                err |-> TRUE]
          ELSE addChars(r.heap, [m EXCEPT !.numNodes = r.numNodes], v1, r.ctx,
                        Tail(chars), shouldUpdate)

---------------------------------------------------------------------------
(* Predictor: word completion from the lexicons *)

\* The loop of _predictFromLexicon over one corpus's prefix matches:
\* candidates maps a word to its frequency rank
RECURSIVE rankMatches(_, _, _)
rankMatches(candidates, prefixMatches, lexiconArray) ==
  IF prefixMatches = <<>> THEN candidates
  ELSE LET word == Head(prefixMatches)
           rank == arrayIndexOf(lexiconArray, word)
       IN rankMatches(IF mapFind(candidates, word, 1) # 0 THEN candidates
                      ELSE mapSet(candidates, word,
                                  IF rank >= 0 THEN rank ELSE Len(lexiconArray)),
                      Tail(prefixMatches), lexiconArray)

\* similarity >= this.config.minSimilarity for a match at a distance given
\* in halves, where similarity = 1.0 - distance / maxLen
isSimilar(partialWord, match, minSimilarity) ==
  LET maxLen == IF Len(partialWord) >= Len(match.term) THEN Len(partialWord)
                ELSE Len(match.term)
  IN IF maxLen = 0 THEN minSimilarity.num <= minSimilarity.den
     ELSE (2 * maxLen - match.distance) * minSimilarity.den
            >= minSimilarity.num * 2 * maxLen

\* The terms of the matches of the metric tree that are similar enough
RECURSIVE similarTerms(_, _, _)
similarTerms(partialWord, matches, minSimilarity) ==
  IF matches = <<>> THEN <<>>
  ELSE (IF isSimilar(partialWord, Head(matches), minSimilarity)
        THEN <<Head(matches).term>> ELSE <<>>)
       \o similarTerms(partialWord, Tail(matches), minSimilarity)

\* The fuzzy matches _predictFromLexicon adds for one corpus in
\* error-tolerant mode
fuzzyMatches(corpus, partialWord, cfg) ==
  IF cfg.errorTolerant /\ Len(partialWord) >= 2 /\ ~isEmpty(corpus.lexiconTree)
  THEN similarTerms(partialWord,
                    bkSearch(corpus.lexiconTree, partialWord, cfg.maxEditDistance),
                    cfg.minSimilarity)
  ELSE <<>>

\* The loop of _predictFromLexicon over the active corpora
RECURSIVE lexiconCandidates(_, _, _, _, _)
lexiconCandidates(cs, active, partialWord, cfg, candidates) ==
  IF active = <<>> THEN candidates
  ELSE IF Head(active) \notin DOMAIN cs
  THEN lexiconCandidates(cs, Tail(active), partialWord, cfg, candidates)
  ELSE LET corpus == cs[Head(active)]
       IN lexiconCandidates(cs, Tail(active), partialWord, cfg,
            IF Len(corpus.lexiconIndex) = 0 THEN candidates
            ELSE rankMatches(
                   rankMatches(candidates,
                               collect(corpus.lexiconTrie, partialWord,
                                       cfg.maxPredictions * 2),
                               corpus.lexicon),
                   fuzzyMatches(corpus, partialWord, cfg),
                   corpus.lexicon))

RECURSIVE maxCount(_, _)
maxCount(map, least) ==
  IF map = <<>> THEN least
  ELSE maxCount(Tail(map), IF Head(map).count > least THEN Head(map).count ELSE least)

\* _scoreCandidatesWithFrequency gives a candidate of rank r the score
\* 0.7 * (1 - r / maxRank) + 0.3 * ppmScore, where ppmScore (_scoreWord, a
\* geometric mean of probabilities) lies in (0, 1]. Whatever the PPM
\* scores, a sorts before b when 0.7 * (rank b - rank a) / maxRank > 0.3.
SortsBefore(a, b, maxRank) == 7 * (b.count - a.count) > 3 * maxRank

\* The orders the sort by score can give a set of candidates
RECURSIVE scoreOrders(_, _)
scoreOrders(candidates, maxRank) ==
  IF candidates = {} THEN {<<>>}
  ELSE UNION {{<<[text |-> a.key]>> \o rest : rest \in scoreOrders(candidates \ {a}, maxRank)} :
                a \in {c \in candidates : \A b \in candidates : ~SortsBefore(b, c, maxRank)}}

\* Predictor._predictFromLexicon with _scoreCandidatesWithFrequency: the
\* lists of predictions (their texts) it can return
predictFromLexicon(cs, active, partialWord, cfg) ==
  LET candidates == lexiconCandidates(cs, active, partialWord, cfg, <<>>)
  IN {slice(order, cfg.maxPredictions) :
        order \in scoreOrders({candidates[i] : i \in 1..Len(candidates)},
                             maxCount(candidates, 1))}

\* hasLexicon of predictWordCompletion
hasLexicon(cs, active) ==
  \E i \in 1..Len(active) : active[i] \in DOMAIN cs /\ Len(cs[active[i]].lexiconIndex) > 0

---------------------------------------------------------------------------
(* Character-driven word completion: Predictor._predictCharacterBased and  *)
(* its beam search _generateCompletions. A beam is [context, text, num,    *)
(* den], its probability the fraction num/den in lowest terms.             *)

\* const maxLength = 20; // Maximum word length to predict
maxLength == 20

Beam(ctx, text, num, den) == [context |-> ctx, text |-> text, num |-> num, den |-> den]

\* a/b < c/d for a, c >= 0 and b, d > 0, by comparing integer parts and
\* then the reciprocals of the remainders
RECURSIVE FractionLess(_, _, _, _)
FractionLess(a, b, c, d) ==
  IF a \div b # c \div d THEN a \div b < c \div d
  ELSE IF c % d = 0 THEN FALSE
  ELSE IF a % b = 0 THEN TRUE
  ELSE FractionLess(d, c % d, b, a % b)

\* Array.prototype.sort((a, b) => b.prob - a.prob) on records with num and
\* den: a stable sort by probability, descending
RECURSIVE insertDescending(_, _)
insertDescending(sorted, x) ==
  IF sorted = <<>> THEN <<x>>
  ELSE IF FractionLess(Head(sorted).num, Head(sorted).den, x.num, x.den)
  THEN <<x>> \o sorted
  ELSE <<Head(sorted)>> \o insertDescending(Tail(sorted), x)

RECURSIVE sortDescending(_)
sortDescending(arr) ==
  IF arr = <<>> THEN <<>>
  ELSE insertDescending(sortDescending(SubSeq(arr, 1, Len(arr) - 1)), arr[Len(arr)])

\* beam.prob * topChars[k].prob
timesProb(beam, top) ==
  LET g1 == Gcd(beam.num, top.den)
      g2 == Gcd(top.num, beam.den)
  IN [beam EXCEPT !.num = (beam.num \div g1) * (top.num \div g2),
                  !.den = (beam.den \div g2) * (top.den \div g1)]

\* The loop collecting the symbols of positive probability: [id, num, den]
RECURSIVE positiveChars(_, _)
positiveChars(p, j) ==
  IF j \notin DOMAIN p.num THEN <<>>
  ELSE (IF p.num[j] > 0 THEN <<[id |-> j, num |-> p.num[j], den |-> p.den]>> ELSE <<>>)
       \o positiveChars(p, j + 1)

\* Mutant of expandBeam: a space or newline is appended like any character
RECURSIVE expandBeamThroughSpaces(_, _, _, _, _, _, _, _)
expandBeamThroughSpaces(h, m, v, beam, prefixLen, topChars, k, acc) ==
  IF k > Len(topChars) \/ k > 3 THEN acc
  ELSE LET charId == topChars[k].id
           char == v[charId + 1]
       IN expandBeamThroughSpaces(h, m, v, beam, prefixLen, topChars, k + 1,
            [acc EXCEPT !.newBeams =
               Append(@, [timesProb(beam, topChars[k]) EXCEPT
                            !.context = addSymbolToContext(h, m, cloneContext(beam.context),
                                                           charId, size(v)).ctx,
                            !.text = Append(beam.text, char)])])

\* The loop expanding one beam with its top characters (k from 1, at most
\* 3): acc is [completions, newBeams]
RECURSIVE expandBeam(_, _, _, _, _, _, _, _)
expandBeam(h, m, v, beam, prefixLen, topChars, k, acc) ==
  IF k > Len(topChars) \/ k > 3 THEN acc
  ELSE LET charId == topChars[k].id
           char == v[charId + 1]
       IN IF charId = getSymbol(v, " ") \/ char = "\n"
          THEN expandBeam(h, m, v, beam, prefixLen, topChars, k + 1,
                 IF Len(beam.text) > prefixLen
                 THEN [acc EXCEPT !.completions =
                         Append(@, Prediction(beam.text, beam.num, beam.den))]
                 ELSE acc)
          ELSE expandBeam(h, m, v, beam, prefixLen, topChars, k + 1,
                 [acc EXCEPT !.newBeams =
                    Append(@, [timesProb(beam, topChars[k]) EXCEPT
                                 !.context = addSymbolToContext(h, m, cloneContext(beam.context),
                                                                charId, size(v)).ctx,
                                 !.text = Append(beam.text, char)])])

\* The loop over the beams of one step
RECURSIVE expandBeams(_, _, _, _, _, _)
expandBeams(h, m, v, beams, prefixLen, acc) ==
  IF beams = <<>> THEN acc
  ELSE expandBeams(h, m, v, Tail(beams), prefixLen,
         expandBeam(h, m, v, Head(beams), prefixLen,
                    sortDescending(positiveChars(getProbs(h, m, Head(beams).context, size(v)), 1)),
                    1, acc))

\* The loop for (let i = 0; i < maxChars; i++). s is [beams, completions,
\* steps, widest]: steps counts the rounds begun and widest is the longest
\* list of beams kept, neither of which the code holds.
RECURSIVE beamSteps(_, _, _, _, _, _, _, _)
beamSteps(h, m, v, s, prefixLen, i, maxChars, numCompletions) ==
  IF ~(i < maxChars) THEN s
  ELSE LET acc == expandBeams(h, m, v, s.beams, prefixLen,
                              [completions |-> s.completions, newBeams |-> <<>>])
           kept == slice(sortDescending(acc.newBeams), numCompletions)
       IN IF acc.newBeams = <<>>
          THEN [s EXCEPT !.completions = acc.completions, !.steps = @ + 1]
          ELSE beamSteps(h, m, v,
                 [beams |-> kept, completions |-> acc.completions, steps |-> s.steps + 1,
                  widest |-> IF Len(kept) > s.widest THEN Len(kept) ELSE s.widest],
                 prefixLen, i + 1, maxChars, numCompletions)

\* The beams whose text has grown past the prefix, as completions
RECURSIVE grownBeams(_, _)
grownBeams(beams, prefixLen) ==
  IF beams = <<>> THEN <<>>
  ELSE (IF Len(Head(beams).text) > prefixLen
        THEN <<Prediction(Head(beams).text, Head(beams).num, Head(beams).den)>> ELSE <<>>)
       \o grownBeams(Tail(beams), prefixLen)

\* Predictor._generateCompletions: [value, steps, widest]
generateCompletions(h, m, v, ctx, prefix, maxChars, numCompletions) ==
  LET s == beamSteps(h, m, v,
                     [beams |-> <<Beam(cloneContext(ctx), prefix, 1, 1)>>,
                      completions |-> <<>>, steps |-> 0, widest |-> 1],
                     Len(prefix), 0, maxChars, numCompletions)
  IN [value |-> slice(sortDescending(s.completions \o grownBeams(s.beams, Len(prefix))),
                      numCompletions),
      steps |-> s.steps, widest |-> s.widest]

\* The loop of _predictCharacterBased and _scoreWord that feeds a context
\* the characters the vocabulary knows and skips the others
RECURSIVE feedKnown(_, _, _, _, _)
feedKnown(h, m, v, ctx, chars) ==
  IF chars = <<>> THEN ctx
  ELSE feedKnown(h, m, v,
                 IF getSymbol(v, Head(chars)) >= 0
                 THEN addSymbolToContext(h, m, ctx, getSymbol(v, Head(chars)), size(v)).ctx
                 ELSE ctx,
                 Tail(chars))

\* Predictor._predictCharacterBased, precedingContext = ''
predictCharacterBased(h, m, v, partialWord) ==
  generateCompletions(h, m, v, feedKnown(h, m, v, createContext(m), toCharArray(partialWord)),
                      partialWord, maxLength - Len(partialWord), 5)

---------------------------------------------------------------------------
(* The PPM specification: one model, a growing vocabulary, and up to       *)
(* MaxCtx caller-owned context handles. probs holds what the last call     *)
(* returned (NoProbs for a call that returns nothing).                     *)

NoProbs == [num |-> <<>>, den |-> 0, err |-> FALSE]

TheModel == models[1]

\* The symbols the callers register, in the order they register them
PPMSymbols == <<"a", "b", "c", "d", "e">>

PPMInit ==
  /\ heap = <<Node(rootSymbol, NullNode)>>
  /\ \E mo \in 1..MaxOrder : models = <<PPMLanguageModel(1, mo)>>
  /\ vocab = addSymbol(Vocabulary, PPMSymbols[1]).vocab
  /\ ctxs = <<>>
  /\ probs = NoProbs
  /\ lastErr = FALSE
  /\ nUpdates = 0
  /\ config = <<>>
  /\ corpusKeys = <<>>
  /\ corpora = <<>>
  /\ activeCorpora = <<>>
  /\ model = 1
  /\ context = createContext(PPMLanguageModel(1, 1))
  /\ bigrams = <<>>
  /\ totalBigrams = 0
  /\ ret = <<>>
  /\ thrown = FALSE
  /\ nCalls = 0
  /\ util = <<>>

\* Vocabulary.addSymbol of a symbol not yet registered
PPMAddSymbol ==
  /\ size(vocab) < MaxVocab
  /\ vocab' = addSymbol(vocab, PPMSymbols[size(vocab)]).vocab
  /\ probs' = NoProbs
  /\ lastErr' = FALSE
  /\ UNCHANGED <<heap, models, ctxs, nUpdates, predVars>>

PPMCreateContext ==
  /\ Len(ctxs) < MaxCtx
  /\ ctxs' = Append(ctxs, createContext(TheModel))
  /\ probs' = NoProbs
  /\ lastErr' = FALSE
  /\ UNCHANGED <<heap, models, vocab, nUpdates, predVars>>

PPMCloneContext ==
  /\ Len(ctxs) < MaxCtx
  /\ \E i \in DOMAIN ctxs : ctxs' = Append(ctxs, cloneContext(ctxs[i]))
  /\ probs' = NoProbs
  /\ lastErr' = FALSE
  /\ UNCHANGED <<heap, models, vocab, nUpdates, predVars>>

PPMAddSymbolToContext ==
  \E i \in DOMAIN ctxs, symbol \in (-1)..size(vocab) :
    LET r == addSymbolToContext(heap, TheModel, ctxs[i], symbol, size(vocab)) IN
    /\ ctxs' = [ctxs EXCEPT ![i] = r.ctx]
    /\ lastErr' = r.err
    /\ probs' = NoProbs
    /\ UNCHANGED <<heap, models, vocab, nUpdates, predVars>>

PPMAddSymbolAndUpdate ==
  /\ nUpdates < MaxUpdates
  /\ \E i \in DOMAIN ctxs, symbol \in (-1)..size(vocab) :
       LET r == addSymbolAndUpdate(heap, TheModel, ctxs[i], symbol, size(vocab)) IN
       /\ heap' = r.heap
       /\ models' = [models EXCEPT ![1].numNodes = r.numNodes]
       /\ ctxs' = [ctxs EXCEPT ![i] = r.ctx]
       /\ lastErr' = r.err
       /\ nUpdates' = IF r.heap = heap THEN nUpdates ELSE nUpdates + 1
       /\ probs' = NoProbs
       /\ UNCHANGED <<vocab, predVars>>

\* useExclusion_ "can be enabled during the run-time"
PPMSetUseExclusion ==
  /\ models' = [models EXCEPT ![1].useExclusion = ~@]
  /\ probs' = NoProbs
  /\ lastErr' = FALSE
  /\ UNCHANGED <<heap, vocab, ctxs, nUpdates, predVars>>

PPMGetProbs ==
  \E i \in DOMAIN ctxs :
    LET r == getProbs(heap, TheModel, ctxs[i], size(vocab)) IN
    /\ probs' = r
    /\ lastErr' = r.err
    /\ UNCHANGED <<heap, models, vocab, ctxs, nUpdates, predVars>>

PPMNext ==
  \/ PPMAddSymbol
  \/ PPMCreateContext
  \/ PPMCloneContext
  \/ PPMAddSymbolToContext
  \/ PPMAddSymbolAndUpdate
  \/ PPMSetUseExclusion
  \/ PPMGetProbs

SpecPPM == PPMInit /\ [][PPMNext]_vars

---------------------------------------------------------------------------
(* The precondition specification: a vocabulary grows from the root symbol *)
(* alone, a model is constructed over it, and contexts are fed any symbol  *)
(* id, valid or not. ret holds the last call, thrown whether it raised.    *)

preconditionIdle == <<probs, lastErr, config, corpusKeys, corpora, activeCorpora, model,
                      context, bigrams, totalBigrams, nCalls, util>>

PreconditionInit ==
  /\ heap = <<Node(rootSymbol, NullNode)>>
  /\ models = <<>>
  /\ vocab = Vocabulary
  /\ ctxs = <<>>
  /\ probs = NoProbs
  /\ lastErr = FALSE
  /\ nUpdates = 0
  /\ config = <<>>
  /\ corpusKeys = <<>>
  /\ corpora = <<>>
  /\ activeCorpora = <<>>
  /\ model = 1
  /\ context = createContext(PPMLanguageModel(1, 1))
  /\ bigrams = <<>>
  /\ totalBigrams = 0
  /\ ret = [op |-> "none", args |-> <<>>, value |-> <<>>]
  /\ thrown = FALSE
  /\ nCalls = 0
  /\ util = <<>>

\* Vocabulary.addSymbol of a symbol not yet registered
VocabularyAddSymbol ==
  /\ size(vocab) < MaxVocab
  /\ vocab' = addSymbol(vocab, PPMSymbols[size(vocab)]).vocab
  /\ ret' = [op |-> "addSymbol", args |-> <<PPMSymbols[size(vocab)]>>, value |-> <<>>]
  /\ thrown' = FALSE
  /\ UNCHANGED <<heap, models, ctxs, nUpdates, preconditionIdle>>

\* new PPMLanguageModel(vocab, maxOrder), while there is no model
NewPPMLanguageModel(maxOrder) ==
  /\ models = <<>>
  /\ ret' = [op |-> "PPMLanguageModel", args |-> <<maxOrder>>, value |-> <<>>]
  /\ thrown' = ~(size(vocab) > 1)
  /\ models' = IF size(vocab) > 1 THEN <<PPMLanguageModel(1, maxOrder)>> ELSE models
  /\ UNCHANGED <<heap, vocab, ctxs, nUpdates, preconditionIdle>>

\* PPMLanguageModel.createContext
CreateContext ==
  /\ models # <<>>
  /\ Len(ctxs) < MaxCtx
  /\ ctxs' = Append(ctxs, createContext(TheModel))
  /\ ret' = [op |-> "createContext", args |-> <<>>, value |-> <<>>]
  /\ thrown' = FALSE
  /\ UNCHANGED <<heap, models, vocab, nUpdates, preconditionIdle>>

\* PPMLanguageModel.addSymbolToContext on the i-th context
AddSymbolToContext(i, symbol) ==
  /\ models # <<>>
  /\ \E r \in {addSymbolToContext(heap, TheModel, ctxs[i], symbol, size(vocab))} :
       /\ ctxs' = [ctxs EXCEPT ![i] = r.ctx]
       /\ thrown' = r.err
  /\ ret' = [op |-> "addSymbolToContext", args |-> <<i, symbol>>, value |-> <<>>]
  /\ UNCHANGED <<heap, models, vocab, nUpdates, preconditionIdle>>

\* PPMLanguageModel.addSymbolAndUpdate on the i-th context
AddSymbolAndUpdate(i, symbol) ==
  /\ models # <<>>
  /\ nUpdates < MaxUpdates
  /\ \E r \in {addSymbolAndUpdate(heap, TheModel, ctxs[i], symbol, size(vocab))} :
       /\ heap' = r.heap
       /\ models' = [models EXCEPT ![1].numNodes = r.numNodes]
       /\ ctxs' = [ctxs EXCEPT ![i] = r.ctx]
       /\ thrown' = r.err
       /\ nUpdates' = IF r.heap = heap THEN nUpdates ELSE nUpdates + 1
  /\ ret' = [op |-> "addSymbolAndUpdate", args |-> <<i, symbol>>, value |-> <<>>]
  /\ UNCHANGED <<vocab, preconditionIdle>>

PreconditionNext ==
  \/ VocabularyAddSymbol
  \/ \E maxOrder \in 1..MaxOrder : NewPPMLanguageModel(maxOrder)
  \/ CreateContext
  \/ \E i \in DOMAIN ctxs, symbol \in (-1)..size(vocab) : AddSymbolToContext(i, symbol)
  \/ \E i \in DOMAIN ctxs, symbol \in (-1)..size(vocab) : AddSymbolAndUpdate(i, symbol)

SpecPrecondition == PreconditionInit /\ [][PreconditionNext]_vars

\* The last call fed a context the symbol id of its second argument
FedSymbol(call) == call.op \in {"addSymbolToContext", "addSymbolAndUpdate"}

\* C17 as stated: constructing a model with a vocabulary of size <= 1
\* raises; addSymbolToContext and addSymbolAndUpdate called with any symbol
\* id outside [0, vocabSize) raise an error, and then neither the trie nor
\* the context has been modified.
FatalPreconditionsRaise ==
  [][/\ (ret'.op = "PPMLanguageModel" /\ size(vocab) <= 1) => thrown'
     /\ (FedSymbol(ret') /\ (ret'.args[2] < 0 \/ ret'.args[2] >= size(vocab))) =>
          /\ thrown'
          /\ UNCHANGED <<heap, models, ctxs>>]_vars

\* C17 amended: constructing a model with a vocabulary of size <= 1 raises
\* (and of size > 1 does not); addSymbolToContext and addSymbolAndUpdate
\* called with a symbol id >= vocabSize raise an error, called with a
\* symbol id <= 0 (the root symbol or a negative id) return without error,
\* and in both cases neither the trie nor the context has been modified.
InvalidSymbolsRaiseOrAreIgnored ==
  [][/\ ret'.op = "PPMLanguageModel" =>
          /\ thrown' <=> size(vocab) <= 1
          /\ thrown' => UNCHANGED <<heap, models, ctxs>>
     /\ (FedSymbol(ret') /\ ret'.args[2] >= size(vocab)) =>
          /\ thrown'
          /\ UNCHANGED <<heap, models, ctxs>>
     /\ (FedSymbol(ret') /\ ret'.args[2] <= rootSymbol) =>
          /\ ~thrown'
          /\ UNCHANGED <<heap, models, ctxs>>]_vars

\* C17 witness: addSymbolAndUpdate was refused a symbol id beyond the
\* vocabulary on a context of order >= 1 in a trained trie.
InvalidSymbolRefused ==
  /\ ret.op = "addSymbolAndUpdate"
  /\ ret.args[2] >= size(vocab)
  /\ thrown
  /\ Len(heap) >= 2
  /\ ctxs[ret.args[1]].order >= 1

---------------------------------------------------------------------------
(* The feed specification: one fresh context of an empty model is fed a    *)
(* sequence of valid symbols through addSymbolAndUpdate, while the         *)
(* vocabulary may grow. util is the sequence fed so far.                   *)

\* The longest sequence fed
MaxFeed == 6

FeedInit ==
  /\ heap = <<Node(rootSymbol, NullNode)>>
  /\ \E mo \in 1..MaxOrder : models = <<PPMLanguageModel(1, mo)>>
  /\ vocab = addSymbol(Vocabulary, PPMSymbols[1]).vocab
  /\ ctxs = <<createContext(PPMLanguageModel(1, 1))>>
  /\ probs = NoProbs
  /\ lastErr = FALSE
  /\ nUpdates = 0
  /\ config = <<>>
  /\ corpusKeys = <<>>
  /\ corpora = <<>>
  /\ activeCorpora = <<>>
  /\ model = 1
  /\ context = createContext(PPMLanguageModel(1, 1))
  /\ bigrams = <<>>
  /\ totalBigrams = 0
  /\ ret = <<>>
  /\ thrown = FALSE
  /\ nCalls = 0
  /\ util = <<>>

\* Vocabulary.addSymbol of a symbol not yet registered
FeedAddSymbol ==
  /\ size(vocab) < MaxVocab
  /\ vocab' = addSymbol(vocab, PPMSymbols[size(vocab)]).vocab
  /\ UNCHANGED <<heap, models, ctxs, probs, lastErr, nUpdates, predVars>>

\* PPMLanguageModel.addSymbolAndUpdate of a valid symbol on the context
FeedSymbol(symbol) ==
  /\ Len(util) < MaxFeed
  /\ \E r \in {addSymbolAndUpdate(heap, TheModel, ctxs[1], symbol, size(vocab))} :
       /\ heap' = r.heap
       /\ models' = [models EXCEPT ![1].numNodes = r.numNodes]
       /\ ctxs' = [ctxs EXCEPT ![1] = r.ctx]
       /\ lastErr' = r.err
  /\ util' = Append(util, symbol)
  /\ UNCHANGED <<vocab, probs, nUpdates, config, corpusKeys, corpora, activeCorpora,
                 model, context, bigrams, totalBigrams, ret, thrown, nCalls>>

FeedNext ==
  \/ FeedAddSymbol
  \/ \E symbol \in 1..(size(vocab) - 1) : FeedSymbol(symbol)

SpecFeed == FeedInit /\ [][FeedNext]_vars

---------------------------------------------------------------------------
(* The Predictor specifications. One Predictor object; ret holds what the  *)
(* last call was and returned, thrown whether it raised. nCalls counts the *)
(* calls that can grow a trie or the bigram table.                         *)

MaxCalls == 2

\* The part of the configuration the model follows, with the defaults of
\* the fuzzy matching: strict mode, maxEditDistance 2 (4 halves),
\* minSimilarity 0.5, Levenshtein distance
PredictorConfig(maxOrder, caseSensitive, adaptive, maxPredictions, lexicon, useExclusion) ==
  [maxOrder |-> maxOrder, errorTolerant |-> FALSE, caseSensitive |-> caseSensitive,
   maxPredictions |-> maxPredictions, adaptive |-> adaptive, lexicon |-> lexicon,
   ppmUseExclusion |-> useExclusion,
   maxEditDistance |-> 4, minSimilarity |-> [num |-> 1, den |-> 2],
   keyboardAware |-> FALSE]

\* A configuration with errorTolerant true and a given maxEditDistance (in
\* halves), minSimilarity (a fraction) and keyboardAware, as the
\* constructor reads them: config.maxEditDistance || 2,
\* config.minSimilarity || 0.5
ErrorTolerantConfig(cfg, maxEditDistance, minSimilarity, keyboardAware) ==
  [cfg EXCEPT !.errorTolerant = TRUE,
              !.maxEditDistance = IF maxEditDistance = 0 THEN 4 ELSE maxEditDistance,
              !.minSimilarity = IF minSimilarity.num = 0 THEN [num |-> 1, den |-> 2]
                                ELSE minSimilarity,
              !.keyboardAware = keyboardAware]

\* Printable ASCII characters (in code order) and the special characters
\* the constructor registers, among those the model's texts use
AsciiSymbols == <<" ", "A", "a", "b", "\n", "\t">>

RECURSIVE addSymbols(_, _)
addSymbols(v, symbols) ==
  IF symbols = <<>> THEN v ELSE addSymbols(addSymbol(v, Head(symbols)).vocab, Tail(symbols))

\* new ppm.PPMLanguageModel(this.vocab, this.config.maxOrder, this._getPPMOptions())
\* with its root at the next free heap cell
newModel(root, cfg) ==
  [PPMLanguageModel(root, cfg.maxOrder) EXCEPT !.useExclusion = cfg.ppmUseExclusion]

Call(op, args, value) == [op |-> op, args |-> args, value |-> value]

ppmIdle == <<ctxs, probs, lastErr, nUpdates, util>>

\* Predictor constructor
Constructor(cfg) ==
  /\ config = cfg
  /\ vocab = addSymbols(Vocabulary, AsciiSymbols)
  /\ heap = <<Node(rootSymbol, NullNode)>>
  /\ models = <<newModel(1, cfg)>>
  /\ corpusKeys = <<"default">>
  /\ corpora = [k \in {"default"} |->
                  buildCorpusLexicon(Corpus(1, TRUE, cfg.lexicon), cfg)]
  /\ activeCorpora = <<"default">>
  /\ model = 1
  /\ context = createContext(newModel(1, cfg))
  /\ bigrams = <<>>
  /\ totalBigrams = 0
  /\ ret = Call("constructor", <<>>, <<>>)
  /\ thrown = FALSE
  /\ nCalls = 0
  /\ ctxs = <<>>
  /\ probs = NoProbs
  /\ lastErr = FALSE
  /\ nUpdates = 0

\* Predictor.train
Train(text) ==
  /\ nCalls < MaxCalls
  /\ nCalls' = nCalls + 1
  /\ ret' = Call("train", <<text>>, <<>>)
  /\ IF notText(text) \/ model = UndefinedModel
     THEN /\ thrown' = ~notText(text)
          /\ UNCHANGED <<heap, models, vocab, bigrams, totalBigrams>>
     ELSE \E r \in {trainChars(heap, models[model], vocab, createContext(models[model]),
                               toCharArray(text))},
             bg \in {learnBigramsFromText([bigrams |-> bigrams, totalBigrams |-> totalBigrams],
                                          text, config.caseSensitive)} :
             /\ heap' = r.heap
             /\ models' = [models EXCEPT ![model].numNodes = r.numNodes]
             /\ vocab' = r.vocab
             /\ thrown' = r.err
             /\ bigrams' = IF r.err THEN bigrams ELSE bg.bigrams
             /\ totalBigrams' = IF r.err THEN totalBigrams ELSE bg.totalBigrams
  /\ UNCHANGED <<config, corpusKeys, corpora, activeCorpora, model, context, ppmIdle>>

\* Predictor.addTrainingCorpus, options = {enabled, lexicon}
AddTrainingCorpus(corpusKey, text, enabled, lexicon) ==
  /\ nCalls < MaxCalls
  /\ nCalls' = nCalls + 1
  /\ ret' = Call("addTrainingCorpus", <<corpusKey, text, enabled>>, <<>>)
  /\ IF corpusKey = "" \/ notText(text)
     THEN /\ thrown' = TRUE
          /\ UNCHANGED <<heap, models, vocab, corpusKeys, corpora, activeCorpora>>
     ELSE \E corpusModel \in {newModel(Len(heap) + 1, config)} :
          \E r \in {trainChars(Append(heap, Node(rootSymbol, NullNode)), corpusModel, vocab,
                               createContext(corpusModel), toCharArray(text))},
             corpus \in {buildCorpusLexicon(Corpus(Len(models) + 1, enabled, lexicon),
                                            config)} :
             /\ heap' = r.heap
             /\ models' = Append(models, [corpusModel EXCEPT !.numNodes = r.numNodes])
             /\ vocab' = r.vocab
             /\ thrown' = r.err
             /\ IF r.err
                THEN UNCHANGED <<corpusKeys, corpora, activeCorpora>>
                ELSE /\ corpora' = [k \in DOMAIN corpora \cup {corpusKey} |->
                                      IF k = corpusKey THEN corpus ELSE corpora[k]]
                     /\ corpusKeys' = IF includes(corpusKeys, corpusKey) THEN corpusKeys
                                      ELSE Append(corpusKeys, corpusKey)
                     /\ activeCorpora' = IF enabled /\ ~includes(activeCorpora, corpusKey)
                                         THEN Append(activeCorpora, corpusKey)
                                         ELSE activeCorpora
  /\ UNCHANGED <<config, model, context, bigrams, totalBigrams, ppmIdle>>

\* Predictor.useCorpora, keys an array
UseCorpora(keys) ==
  /\ ret' = Call("useCorpora", <<keys>>, <<>>)
  /\ IF \E i \in 1..Len(keys) : ~corpusExists(corpora, keys[i])
     THEN /\ thrown' = TRUE
          /\ UNCHANGED <<corpora, activeCorpora, model>>
     ELSE /\ thrown' = FALSE
          /\ corpora' = [k \in DOMAIN corpora |-> [corpora[k] EXCEPT !.enabled = includes(keys, k)]]
          /\ activeCorpora' = keys
          /\ model' = IF includes(keys, "default") THEN modelOf(corpora, "default")
                      ELSE IF Len(keys) > 0 THEN modelOf(corpora, keys[1])
                      ELSE model
  /\ UNCHANGED <<heap, models, vocab, config, corpusKeys, context, bigrams, totalBigrams,
                 nCalls, ppmIdle>>

\* Predictor.useAllCorpora
UseAllCorpora ==
  /\ ret' = Call("useAllCorpora", <<>>, <<>>)
  /\ thrown' = FALSE
  /\ corpora' = [k \in DOMAIN corpora |-> [corpora[k] EXCEPT !.enabled = TRUE]]
  /\ activeCorpora' = corpusKeys
  /\ UNCHANGED <<heap, models, vocab, config, corpusKeys, model, context, bigrams,
                 totalBigrams, nCalls, ppmIdle>>

\* Predictor.getCorpora
GetCorpora(onlyEnabled) ==
  /\ ret' = Call("getCorpora", <<onlyEnabled>>,
                 IF onlyEnabled THEN activeCorpora ELSE corpusKeys)
  /\ thrown' = FALSE
  /\ UNCHANGED <<heap, models, vocab, config, corpusKeys, corpora, activeCorpora, model,
                 context, bigrams, totalBigrams, nCalls, ppmIdle>>

\* Predictor.getCorpusInfo
GetCorpusInfo(corpusKey) ==
  /\ IF ~corpusExists(corpora, corpusKey)
     THEN /\ thrown' = TRUE
          /\ ret' = Call("getCorpusInfo", <<corpusKey>>, <<>>)
     ELSE /\ thrown' = FALSE
          /\ IF corpusKey \in DOMAIN corpora
             THEN ret' = Call("getCorpusInfo", <<corpusKey>>,
                              [key |-> corpusKey, enabled |-> corpora[corpusKey].enabled])
             ELSE \* the enabled property of the inherited function: undefined,
                  \* unless some useCorpora call has set it
                  \/ ret' = Call("getCorpusInfo", <<corpusKey>>,
                                 [key |-> corpusKey, enabled |-> Undefined])
                  \/ ret' = Call("getCorpusInfo", <<corpusKey>>,
                                 [key |-> corpusKey, enabled |-> TRUE])
  /\ UNCHANGED <<heap, models, vocab, config, corpusKeys, corpora, activeCorpora, model,
                 context, bigrams, totalBigrams, nCalls, ppmIdle>>

\* RemoveCorpus without the guard of the default corpus
RemoveAnyCorpus(corpusKey) ==
  /\ ret' = Call("removeCorpus", <<corpusKey>>, <<>>)
  /\ IF ~corpusExists(corpora, corpusKey)
     THEN /\ thrown' = TRUE
          /\ UNCHANGED <<corpusKeys, corpora, activeCorpora>>
     ELSE /\ thrown' = FALSE
          /\ corpora' = [k \in DOMAIN corpora \ {corpusKey} |-> corpora[k]]
          /\ corpusKeys' = without(corpusKeys, corpusKey)
          /\ activeCorpora' = without(activeCorpora, corpusKey)
  /\ UNCHANGED <<heap, models, vocab, config, model, context, bigrams, totalBigrams,
                 nCalls, ppmIdle>>

\* Predictor.removeCorpus
RemoveCorpus(corpusKey) ==
  /\ ret' = Call("removeCorpus", <<corpusKey>>, <<>>)
  /\ IF corpusKey = "default" \/ ~corpusExists(corpora, corpusKey)
     THEN /\ thrown' = TRUE
          /\ UNCHANGED <<corpusKeys, corpora, activeCorpora>>
     ELSE /\ thrown' = FALSE
          /\ corpora' = [k \in DOMAIN corpora \ {corpusKey} |-> corpora[k]]
          /\ corpusKeys' = without(corpusKeys, corpusKey)
          /\ activeCorpora' = without(activeCorpora, corpusKey)
  /\ UNCHANGED <<heap, models, vocab, config, model, context, bigrams, totalBigrams,
                 nCalls, ppmIdle>>

\* Predictor.resetContext
ResetContext ==
  /\ ret' = Call("resetContext", <<>>, <<>>)
  /\ thrown' = (model = UndefinedModel)
  /\ context' = IF model = UndefinedModel THEN context ELSE createContext(models[model])
  /\ UNCHANGED <<heap, models, vocab, config, corpusKeys, corpora, activeCorpora, model,
                 bigrams, totalBigrams, nCalls, ppmIdle>>

\* Predictor.addToContext; update is "null" (absent), "true" or "false"
AddToContext(text, update) ==
  \E shouldUpdate \in {IF update = "null" THEN config.adaptive ELSE update = "true"} :
  \E r \in {IF model = UndefinedModel
             THEN [heap |-> heap, vocab |-> firstRegistered(vocab, toCharArray(text)),
                   ctx |-> context, err |-> ~notText(text)]
             ELSE addChars(heap, models[model], vocab, context, toCharArray(text),
                           shouldUpdate)} :
     /\ shouldUpdate => nCalls < MaxCalls
     /\ nCalls' = IF shouldUpdate THEN nCalls + 1 ELSE nCalls
     /\ ret' = Call("addToContext", <<text, update>>, <<>>)
     /\ heap' = r.heap
     /\ models' = IF model = UndefinedModel THEN models
                  ELSE [models EXCEPT ![model].numNodes = r.numNodes]
     /\ vocab' = r.vocab
     /\ context' = r.ctx
     /\ thrown' = r.err
     /\ UNCHANGED <<config, corpusKeys, corpora, activeCorpora, model, bigrams,
                    totalBigrams, ppmIdle>>

\* Predictor.predictNextCharacter; ctxArg is Null (absent), a string or
\* NotAString
PredictNextCharacter(ctxArg) ==
  \E r \in {predictNextCharacter(heap, models, vocab, corpora, context, activeCorpora,
                                 ctxArg, config.maxPredictions)} :
     /\ ret' = Call("predictNextCharacter", <<ctxArg>>, r.value)
     /\ thrown' = r.err
     /\ vocab' = r.vocab
     /\ UNCHANGED <<heap, models, config, corpusKeys, corpora, activeCorpora, model,
                    context, bigrams, totalBigrams, nCalls, ppmIdle>>

\* Predictor.importBigrams
ImportBigrams(bigramText) ==
  \E bg \in {importBigrams([bigrams |-> bigrams, totalBigrams |-> totalBigrams], bigramText)} :
     /\ nCalls < MaxCalls
     /\ nCalls' = nCalls + 1
     /\ ret' = Call("importBigrams", <<bigramText>>, <<>>)
     /\ thrown' = FALSE
     /\ bigrams' = bg.bigrams
     /\ totalBigrams' = bg.totalBigrams
     /\ UNCHANGED <<heap, models, vocab, config, corpusKeys, corpora, activeCorpora, model,
                    context, ppmIdle>>

\* Predictor.clearBigrams
ClearBigrams ==
  /\ ret' = Call("clearBigrams", <<>>, <<>>)
  /\ thrown' = FALSE
  /\ bigrams' = <<>>
  /\ totalBigrams' = 0
  /\ UNCHANGED <<heap, models, vocab, config, corpusKeys, corpora, activeCorpora, model,
                 context, nCalls, ppmIdle>>

\* Predictor.predictNextWord
PredictNextWord(currentWord, maxPredictions) ==
  /\ ret' = Call("predictNextWord", <<currentWord, maxPredictions>>,
                 predictNextWord(bigrams, currentWord, maxPredictions, config.caseSensitive))
  /\ thrown' = FALSE
  /\ UNCHANGED <<heap, models, vocab, config, corpusKeys, corpora, activeCorpora, model,
                 context, bigrams, totalBigrams, nCalls, ppmIdle>>

\* Predictor.getBigramStats
getBigramStats(bg) == [uniqueBigrams |-> Len(bg.bigrams), totalBigrams |-> bg.totalBigrams]

\* A fresh predictor with the same caseSensitive setting runs
\* importBigrams(source.exportBigrams()); the call returns the fresh
\* predictor's bigram table and total
ExportToFresh ==
  /\ ret' = Call("exportToFresh", <<exportBigrams(bigrams)>>,
                 importBigrams([bigrams |-> <<>>, totalBigrams |-> 0], exportBigrams(bigrams)))
  /\ thrown' = FALSE
  /\ UNCHANGED <<heap, models, vocab, config, corpusKeys, corpora, activeCorpora, model,
                 context, bigrams, totalBigrams, nCalls, ppmIdle>>

\* Predictor.predictWordCompletion where it does not take the
\* character-based branch: no partial word, or a lexicon in some
\* active corpus
PredictWordCompletion(partialWord) ==
  /\ notText(partialWord) \/ hasLexicon(corpora, activeCorpora)
  /\ \E value \in IF notText(partialWord) THEN {<<>>}
                  ELSE predictFromLexicon(corpora, activeCorpora,
                                          IF config.caseSensitive THEN partialWord
                                          ELSE toLowerCase(partialWord),
                                          config) :
       \* _scoreWord asks this.model for a context, once per candidate
       IF model = UndefinedModel /\ value # <<>>
       THEN ret' = Call("predictWordCompletion", <<partialWord>>, <<>>) /\ thrown' = TRUE
       ELSE ret' = Call("predictWordCompletion", <<partialWord>>, value) /\ thrown' = FALSE
  /\ UNCHANGED <<heap, models, vocab, config, corpusKeys, corpora, activeCorpora, model,
                 context, bigrams, totalBigrams, nCalls, ppmIdle>>

---------------------------------------------------------------------------
(* The beam specification: a predictor without lexicon, untrained or       *)
(* trained once, is asked to complete partial words of about maxLength     *)
(* characters. util is [steps, widest] of the last beam search.            *)

\* Predictor.predictWordCompletion of a non-empty string when no active
\* corpus has a lexicon: the character-based branch
PredictWordCompletionByCharacters(partialWord) ==
  /\ ~notText(partialWord)
  /\ ~hasLexicon(corpora, activeCorpora)
  /\ IF model = UndefinedModel
     THEN /\ ret' = Call("predictWordCompletion", <<partialWord>>, <<>>)
          /\ thrown' = TRUE
          /\ util' = [steps |-> 0, widest |-> 0]
     ELSE \E r \in {predictCharacterBased(heap, models[model], vocab, partialWord)} :
            /\ ret' = Call("predictWordCompletion", <<partialWord>>, r.value)
            /\ thrown' = FALSE
            /\ util' = [steps |-> r.steps, widest |-> r.widest]
  /\ UNCHANGED <<heap, models, vocab, config, corpusKeys, corpora, activeCorpora, model,
                 context, bigrams, totalBigrams, nCalls, ctxs, probs, lastErr, nUpdates>>

\* A string of n times the character c
Repeated(c, n) == [i \in 1..n |-> c]

\* Partial words of 18 to 21 characters
BeamWords == {Repeated(c, n) : c \in {"a", "b", "A"}, n \in (maxLength - 2)..(maxLength + 1)}

\* Training texts with and without white space
BeamTexts == {<<"A", "a", "b">>, <<"b", " ", "a">>, <<"a", "\n", "a", "\t">>}

BeamInit ==
  /\ \E caseSensitive \in BOOLEAN, useExclusion \in BOOLEAN :
       Constructor(PredictorConfig(1, caseSensitive, FALSE, 10, <<>>, useExclusion))
  /\ util = [steps |-> 0, widest |-> 0]

\* The partial word leaves a fresh context at a node without children
EndsAtLeaf(partialWord) ==
  heap[feedKnown(heap, models[model], vocab, createContext(models[model]),
                 partialWord).head].child = NullNode

\* The model is trained at most once, and a search of two steps starts at a
\* node without children, which keeps the products of two probabilities
\* within 32-bit integers
BeamNext ==
  \/ Len(heap) = 1 /\ \E text \in BeamTexts : Train(text)
  \/ \E partialWord \in BeamWords :
       /\ Len(partialWord) > maxLength - 2 \/ EndsAtLeaf(partialWord)
       /\ PredictWordCompletionByCharacters(partialWord)

SpecBeam == BeamInit /\ [][BeamNext]_vars

\* The expansion steps the search may take for a partial word
StepBudget(partialWord) ==
  IF Len(partialWord) >= maxLength THEN 0 ELSE maxLength - Len(partialWord)

\* C27: the character-driven beam search used when no active corpus has a
\* lexicon always terminates after at most 20 - len(partialWord) expansion
\* steps, keeps at most 5 beam entries after each step, and returns at most
\* 5 completions sorted by probability descending; every completion is
\* partialWord followed by at least 1 and at most 20 - len(partialWord)
\* appended symbols, none of which is a space or newline, and has
\* probability in [0, 1]; when len(partialWord) >= 20 the result is empty.
BeamSearchIsBounded ==
  (ret.op = "predictWordCompletion" /\ ~thrown) =>
    LET partialWord == ret.args[1] IN
    /\ util.steps <= StepBudget(partialWord)
    /\ util.widest <= 5
    /\ Len(ret.value) <= 5
    /\ \A i \in 1..(Len(ret.value) - 1) :
         ~FractionLess(ret.value[i].num, ret.value[i].den,
                       ret.value[i + 1].num, ret.value[i + 1].den)
    /\ \A i \in 1..Len(ret.value) :
         LET text == ret.value[i].text IN
         /\ Len(text) >= Len(partialWord) + 1
         /\ Len(text) <= Len(partialWord) + StepBudget(partialWord)
         /\ SubSeq(text, 1, Len(partialWord)) = partialWord
         /\ \A k \in (Len(partialWord) + 1)..Len(text) : text[k] \notin {" ", "\n"}
         /\ ret.value[i].den > 0
         /\ 0 <= ret.value[i].num
         /\ ret.value[i].num <= ret.value[i].den
    /\ Len(partialWord) >= maxLength => ret.value = <<>>

\* C27 witness: a search of two steps cut its beams down to 5 and returned
\* 5 completions, one of them shorter than another.
BeamCutToWidth ==
  /\ ret.op = "predictWordCompletion"
  /\ ~thrown
  /\ util.steps = 2
  /\ util.widest = 5
  /\ Len(ret.value) = 5

---------------------------------------------------------------------------
(* The bigram specification: train, importBigrams and clearBigrams build   *)
(* the table; predictNextWord, and a fresh predictor importing the export, *)
(* read it.                                                                *)

MaxLimit == 2

\* Training texts: words of one letter, upper case, runs of white space, a
\* single word, the empty string
TrainTexts ==
  {<<"a", " ", "b">>,
   <<"a", " ", "c", " ", "a">>,
   <<"A", " ", " ", "b", "\n">>,
   <<"\t", "a">>,
   <<>>,
   <<"a", " ", "b", " ", "a", " ", "b">>}

\* Texts for importBigrams: well-formed lines, a count of two digits, a key
\* with a double space, surrounding white space, a count with a suffix, blank
\* lines, counts that are zero, negative or not numbers, lines of fewer than
\* three parts, a key of three words, a count of 10^21, the empty string
ImportTexts ==
  {<<"a", " ", "b", " ", "2">>,
   <<"a", " ", "c", " ", "1", "2", "\n", "b", " ", "a", " ", "1">>,
   <<"a", " ", " ", "b", " ", "3">>,
   <<" ", "a", " ", "b", " ", "2", "x", " ", "\n", "\n", "A", " ", "b", " ", "1">>,
   <<"a", " ", "b", " ", "0", "\n", "a", " ", "b", " ", "-", "1", "\n", "a", " ", "b", " ", "x", "\n", "a", "b", " ", "3", "\n", " ", "a", " ", "3">>,
   <<"a", " ", "b", " ", "c", " ", "2">>,
   <<"a", " ", "b", " ", "1", "0", "0", "0", "0", "0", "0", "0", "0", "0", "0", "0", "0", "0", "0", "0", "0", "0", "0", "0", "0", "0">>,
   <<>>}

\* Words to predict from
Words ==
  {<<"a">>,
   <<"A">>,
   <<"b">>,
   <<"c">>,
   <<>>}

BigramInit ==
  /\ \E caseSensitive \in BOOLEAN :
       Constructor(PredictorConfig(1, caseSensitive, FALSE, 1, <<>>, FALSE))
  /\ util = <<>>

BigramNext ==
  \/ \E text \in TrainTexts : Train(text)
  \/ \E bigramText \in ImportTexts : ImportBigrams(bigramText)
  \/ ClearBigrams
  \/ \E currentWord \in Words, maxPredictions \in 0..MaxLimit :
       PredictNextWord(currentWord, maxPredictions)
  \/ ExportToFresh

SpecBigram == BigramInit /\ [][BigramNext]_vars

\* Every count of the table converts to a string in decimal digits
CountsPrintInDigits == \A i \in 1..Len(bigrams) : bigrams[i].count < E21

---------------------------------------------------------------------------
\* The token is a positive base-10 integer: digits only, not all of them 0
IsPositiveInteger(token) ==
  /\ token # <<>>
  /\ \A i \in 1..Len(token) : IsDigit(token[i])
  /\ digitPrefixValue(token) > 0

\* The table and total after each well-formed line "key count" of lines has
\* added its count to the count of its key and to the total, the other
\* lines having changed nothing. A line is well formed when it has at least
\* 3 space-separated tokens, the last a positive base-10 integer.
RECURSIVE AddWellFormedLines(_, _)
AddWellFormedLines(bg, lines) ==
  IF lines = <<>> THEN bg
  ELSE LET parts == split(trim(Head(lines)), " ")
           key == join(SubSeq(parts, 1, Len(parts) - 1), <<" ">>)
           count == digitPrefixValue(parts[Len(parts)])
       IN AddWellFormedLines(
            IF Len(parts) >= 3 /\ IsPositiveInteger(parts[Len(parts)])
            THEN [bigrams |-> mapSet(bg.bigrams, key, plus(mapGet(bg.bigrams, key), count)),
                  totalBigrams |-> plus(bg.totalBigrams, count)]
            ELSE bg,
            Tail(lines))

\* C18: importBigrams(text) is additive and skips malformed lines: each
\* well-formed line "key count" adds count to the existing count of key and
\* to the running total; a line with fewer than 3 space-separated tokens,
\* or whose trailing token is not a positive base-10 integer, changes
\* neither the table nor the total; no error is raised.
ImportAddsWellFormedLines ==
  [][ret'.op = "importBigrams" =>
       /\ ~thrown'
       /\ [bigrams |-> bigrams', totalBigrams |-> totalBigrams'] =
            IF ret'.args[1] = <<>> THEN [bigrams |-> bigrams, totalBigrams |-> totalBigrams]
            ELSE AddWellFormedLines([bigrams |-> bigrams, totalBigrams |-> totalBigrams],
                                    split(ret'.args[1], "\n"))]_vars

\* No line of the text ends in a token that begins with digits and goes on
\* with something else
RECURSIVE NoDigitPrefixedToken(_)
NoDigitPrefixedToken(lines) ==
  \/ lines = <<>>
  \/ /\ \E parts \in {split(trim(Head(lines)), " ")} :
          \E token \in {parts[Len(parts)]} :
            \/ token = <<>>
            \/ ~IsDigit(Head(token))
            \/ \A i \in 1..Len(token) : IsDigit(token[i])
     /\ NoDigitPrefixedToken(Tail(lines))

\* C18 for texts without such a token, for which it holds
ImportAddsWellFormedLinesOfDigits ==
  [][(ret'.op = "importBigrams" /\ NoDigitPrefixedToken(split(toCharArray(ret'.args[1]), "\n"))) =>
       /\ ~thrown'
       /\ [bigrams |-> bigrams', totalBigrams |-> totalBigrams'] =
            IF ret'.args[1] = <<>> THEN [bigrams |-> bigrams, totalBigrams |-> totalBigrams]
            ELSE AddWellFormedLines([bigrams |-> bigrams, totalBigrams |-> totalBigrams],
                                    split(ret'.args[1], "\n"))]_vars
\* C18 witness: an import of malformed lines only left a table that was
\* not empty.
MalformedLinesSkipped ==
  /\ ret.op = "importBigrams"
  /\ \E i \in 1..Len(ret.args[1]) : ret.args[1][i] = "x"
  /\ \A i \in 1..Len(ret.args[1]) : ret.args[1][i] # "2"
  /\ bigrams # <<>>
\* The sum of the counts of all keys
RECURSIVE SumOfAllCounts(_)
SumOfAllCounts(map) ==
  IF map = <<>> THEN 0 ELSE Head(map).count + SumOfAllCounts(Tail(map))

\* getBigramStats() agrees with the table: totalBigrams is the sum of the
\* counts, every count is >= 1, and uniqueBigrams <= totalBigrams
StatsAgreeWithTable ==
  \A stats \in {getBigramStats([bigrams |-> bigrams, totalBigrams |-> totalBigrams])} :
    /\ stats.totalBigrams = SumOfAllCounts(bigrams)
    /\ \A i \in 1..Len(bigrams) : bigrams[i].count >= 1
    /\ stats.uniqueBigrams <= stats.totalBigrams

\* Right after clearBigrams both statistics are 0 and predictNextWord
\* returns the empty list for every word
ClearedTableIsEmpty ==
  ret.op = "clearBigrams" =>
    /\ getBigramStats([bigrams |-> bigrams, totalBigrams |-> totalBigrams])
         = [uniqueBigrams |-> 0, totalBigrams |-> 0]
    /\ \A currentWord \in Words, maxPredictions \in 0..MaxLimit :
         predictNextWord(bigrams, currentWord, maxPredictions, config.caseSensitive) = <<>>

\* C19: after any sequence of train, importBigrams and clearBigrams calls,
\* getBigramStats().totalBigrams equals the sum of the counts of all keys
\* in the bigram table, every stored count is >= 1, and uniqueBigrams <=
\* totalBigrams; immediately after clearBigrams both are 0 and
\* predictNextWord returns the empty list for every word.
BigramStatsAreConsistent == StatsAgreeWithTable /\ ClearedTableIsEmpty

\* C19 while the total is a Number that small counts still change (below
\* 10^21 in the model), for which it holds
BigramStatsAreConsistentInDigits ==
  /\ totalBigrams < E21 => StatsAgreeWithTable
  /\ ClearedTableIsEmpty

\* C19 witness: a table of at least two keys with a count above 1, built by
\* train and by importBigrams, after an earlier table was cleared.
StatsOfMixedTable ==
  /\ Len(bigrams) >= 2
  /\ \E i \in 1..Len(bigrams) : bigrams[i].count >= 3
  /\ totalBigrams < E21
  /\ nCalls = MaxCalls
\* C2: a fresh predictor with the same caseSensitive setting that imports
\* the export of a source predictor (its table built by any train and
\* importBigrams calls) has the same uniqueBigrams and totalBigrams, and
\* returns the same predictNextWord list for every word and limit.
BigramRoundTrip ==
  ret.op = "exportToFresh" =>
    /\ getBigramStats(ret.value)
         = getBigramStats([bigrams |-> bigrams, totalBigrams |-> totalBigrams])
    /\ \A currentWord \in Words, maxPredictions \in 0..MaxLimit :
         predictNextWord(ret.value.bigrams, currentWord, maxPredictions, config.caseSensitive)
           = predictNextWord(bigrams, currentWord, maxPredictions, config.caseSensitive)

\* C2, narrowed to the tables whose counts all print in decimal digits: the
\* fresh predictor then holds the very same table.
BigramRoundTripInDigits ==
  (ret.op = "exportToFresh" /\ CountsPrintInDigits) =>
    ret.value = [bigrams |-> bigrams, totalBigrams |-> totalBigrams]

\* C2 witness: a table of at least two keys, built by train and by
\* importBigrams both, was exported and imported.
BigramRoundTripRuns ==
  /\ ret.op = "exportToFresh"
  /\ Len(bigrams) >= 2
  /\ Len(ret.value.bigrams) >= 2
  /\ \E i \in 1..Len(bigrams) : bigrams[i].count >= 3

---------------------------------------------------------------------------
(* The training specification: the bigram table is built by train alone.   *)

TrainNext ==
  \/ \E text \in TrainTexts : Train(text)
  \/ ClearBigrams
  \/ \E currentWord \in Words, maxPredictions \in 0..MaxLimit :
       PredictNextWord(currentWord, maxPredictions)

SpecTrain == BigramInit /\ [][TrainNext]_vars

\* The word the last predictNextWord call asked about, normalized for case
AskedWord ==
  IF config.caseSensitive THEN ret.args[1] ELSE toLowerCase(ret.args[1])

\* count("w x") for the asked word w
CountOfPair(x) == mapGet(bigrams, AskedWord \o <<" ">> \o x)

\* The table entries "w y" for the asked word w
PairsOfAskedWord ==
  {i \in 1..Len(bigrams) :
     /\ Len(bigrams[i].key) > Len(AskedWord) + 1
     /\ SubSeq(bigrams[i].key, 1, Len(AskedWord) + 1) = AskedWord \o <<" ">>}

RECURSIVE SumOfCounts(_)
SumOfCounts(entries) ==
  IF entries = {} THEN 0
  ELSE LET i == CHOOSE j \in entries : TRUE
       IN bigrams[i].count + SumOfCounts(entries \ {i})

RECURSIVE SumOfNumerators(_, _)
SumOfNumerators(list, i) ==
  IF i > Len(list) THEN 0 ELSE list[i].num + SumOfNumerators(list, i + 1)

\* C3: after train calls only, each entry {text: x, probability: p} that
\* predictNextWord(w, limit) returns has p = count("w' x") / sum over y of
\* count("w' y"), w' being w normalized for case; the entries are sorted by
\* probability, descending; there are at most limit of them; and when limit
\* is at least the number of distinct successors of w' (and there is one),
\* the probabilities sum to 1.
NextWordProbabilities ==
  ret.op = "predictNextWord" =>
    LET list == ret.value
        limit == ret.args[2]
        total == SumOfCounts(PairsOfAskedWord)
    IN /\ Len(list) <= limit
       /\ \A i \in 1..Len(list) :
            /\ CountOfPair(list[i].text) > 0
            /\ list[i].den > 0
            /\ list[i].num * total = CountOfPair(list[i].text) * list[i].den
       /\ \A i, j \in 1..Len(list) : i # j => list[i].text # list[j].text
       /\ \A i \in 1..(Len(list) - 1) :
            list[i].num * list[i + 1].den >= list[i + 1].num * list[i].den
       /\ (limit >= Cardinality(PairsOfAskedWord) /\ PairsOfAskedWord # {}) =>
            /\ \A i \in 1..Len(list) : list[i].den = total
            /\ SumOfNumerators(list, 1) = total

\* C3 witness: two successors with different counts, listed in the order
\* opposite to the one in which the table learned them.
NextWordSortedByProbability ==
  /\ ret.op = "predictNextWord"
  /\ Len(ret.value) = 2
  /\ ret.value[1].num = 2
  /\ ret.value[2].num = 1
  /\ mapFind(bigrams, AskedWord \o <<" ">> \o ret.value[1].text, 1)
       > mapFind(bigrams, AskedWord \o <<" ">> \o ret.value[2].text, 1)

---------------------------------------------------------------------------
(* The corpus specification: corpora are added, selected and removed, the  *)
(* working model is trained, the live context is fed and read.             *)

MaxKeys == 2

CorpusNames == {"default", "medical"}

\* A name no corpus ever has
MissingName == "missing"

\* Texts for train and addTrainingCorpus
CorpusTexts == {<<"b", " ", "a">>, <<>>}

\* Texts for addToContext and for the context argument of predictNextCharacter
ContextTexts == {<<"b">>, <<"b", " ">>}

\* The arrays useCorpora is called with: up to MaxKeys names, repeated ones
\* included, the last of which may be an unknown or an inherited name
KeyLists ==
  {keys \in UNION {[1..n -> CorpusNames \cup {MissingName} \cup InheritedNames] :
                    n \in 0..MaxKeys} :
     \A i \in 1..(Len(keys) - 1) : keys[i] \in CorpusNames}

CorporaInit ==
  /\ Constructor(PredictorConfig(MaxOrder, FALSE, FALSE, MaxLimit, <<>>, FALSE))
  /\ util = <<>>

CorporaNext ==
  \/ \E corpusKey \in CorpusNames \cup {""}, text \in CorpusTexts, enabled \in BOOLEAN :
       AddTrainingCorpus(corpusKey, text, enabled, <<>>)
  \/ \E keys \in KeyLists : UseCorpora(keys)
  \/ UseAllCorpora
  \/ \E onlyEnabled \in BOOLEAN : GetCorpora(onlyEnabled)
  \/ \E corpusKey \in CorpusNames \cup {MissingName} \cup InheritedNames :
       GetCorpusInfo(corpusKey)
  \/ \E corpusKey \in CorpusNames \cup {MissingName} \cup InheritedNames :
       RemoveCorpus(corpusKey)
  \/ \E text \in CorpusTexts : Train(text)

SpecCorpora == CorporaInit /\ [][CorporaNext]_vars

(* The context specification: corpora are added and selected, the live     *)
(* context is reset and fed, and the next character is predicted.          *)

ContextInit ==
  /\ \E useExclusion \in BOOLEAN :
       Constructor(PredictorConfig(MaxOrder, FALSE, FALSE, MaxLimit, <<>>, useExclusion))
  /\ util = <<>>

ContextNext ==
  \/ \E corpusKey \in CorpusNames, text \in CorpusTexts, enabled \in BOOLEAN :
       AddTrainingCorpus(corpusKey, text, enabled, <<>>)
  \/ \E keys \in KeyLists : UseCorpora(keys)
  \/ UseAllCorpora
  \/ \E text \in CorpusTexts : Train(text)
  \/ ResetContext
  \/ \E text \in ContextTexts, update \in {"null", "true"} : AddToContext(text, update)
  \/ \E ctxArg \in ContextTexts \cup {Null} : PredictNextCharacter(ctxArg)

SpecContext == ContextInit /\ [][ContextNext]_vars

\* The nodes of the trie under a node
RECURSIVE TrieNodes(_, _)
TrieNodes(h, node) ==
  {node} \cup UNION {TrieNodes(h, children(h, node)[i]) : i \in 1..Len(children(h, node))}

\* The trie of a model: its nodes with their symbols, counts and links
Trie(h, m) == [n \in TrieNodes(h, m.root) |-> h[n]]

---------------------------------------------------------------------------
(* The live-context specification: corpora are added, selected and         *)
(* removed by their names, the working model is trained, and the live      *)
(* context is reset and fed, with and without updating the model. Every    *)
(* argument is valid: a non-empty text, the names of existing corpora.     *)

LiveInit ==
  /\ Constructor(PredictorConfig(MaxOrder, FALSE, FALSE, MaxLimit, <<>>, FALSE))
  /\ util = <<>>

LiveNext ==
  \/ \E corpusKey \in CorpusNames, enabled \in BOOLEAN :
       AddTrainingCorpus(corpusKey, <<"b", " ", "a">>, enabled, <<>>)
  \/ \E keys \in {k \in KeyLists : Len(k) > 0 /\ \A i \in 1..Len(k) : k[i] \in DOMAIN corpora} :
       UseCorpora(keys)
  \/ UseAllCorpora
  \/ \E corpusKey \in DOMAIN corpora \ {"default"} : RemoveCorpus(corpusKey)
  \/ Train(<<"b", " ", "a">>)
  \/ ResetContext
  \/ \E text \in ContextTexts, update \in {"null", "true"} : AddToContext(text, update)

SpecLive == LiveInit /\ [][LiveNext]_vars

\* The roots of the models' tries
Roots == {models[i].root : i \in 1..Len(models)}

\* C29 as stated: no sequence of public Predictor operations called with
\* valid arguments raises an internal assertion of the PPM model or leaves
\* a trie node other than a root without a backoff link, and the head of
\* the live context always belongs to the trie of the working model, the
\* one addToContext operates on, also after useCorpora, useAllCorpora or
\* removeCorpus without a following resetContext.
LiveContextBelongsToWorkingModel ==
  /\ ~thrown
  /\ \A n \in 1..Len(heap) : n \notin Roots => heap[n].backoff # NullNode
  /\ context.head \in TrieNodes(heap, models[model].root)

\* C29 witness: addToContext has fed the live context and updated the
\* model after useCorpora selected another corpus than the default one,
\* with no resetContext in between.
ContextFedAfterSwitch ==
  /\ ret.op = "addToContext"
  /\ ret.args[2] = "true"
  /\ model # modelOf(corpora, "default")
  /\ context.head \notin TrieNodes(heap, models[model].root)
---------------------------------------------------------------------------
\* C4: addTrainingCorpus(name, text, options) learns bigrams exactly as
\* train(text) does: after the call, the count of "w1 w2" and the running
\* total have grown by one per occurrence of the pair w1 w2 of consecutive
\* words in text (case-normalized per configuration).
AddTrainingCorpusLearnsBigrams ==
  [][(ret'.op = "addTrainingCorpus" /\ ~thrown') =>
       LET learned == learnBigramsFromText([bigrams |-> bigrams, totalBigrams |-> totalBigrams],
                                           ret'.args[2], config.caseSensitive)
       IN /\ bigrams' = learned.bigrams
          /\ totalBigrams' = learned.totalBigrams]_vars

\* C5: train(text) with a non-empty string, after any addTrainingCorpus,
\* useCorpora, useAllCorpora and removeCorpus calls, changes the trie of
\* the corpus named 'default' and leaves the trie of every other corpus
\* unchanged.
TrainTrainsDefaultCorpus ==
  [][(ret'.op = "train" /\ ret'.args[1] # <<>> /\ ~thrown') =>
       /\ Trie(heap', models'[corpora["default"].model])
            # Trie(heap, models[corpora["default"].model])
       /\ \A k \in DOMAIN corpora \ {"default"} :
            Trie(heap', models'[corpora[k].model]) = Trie(heap, models[corpora[k].model])]_vars

\* C6: predictNextCharacter() without a context argument returns the
\* distribution computed from the live context, whichever corpora are
\* active. Stated for one active corpus whose model is the working model
\* and whose trie the live context points into (the context was reset and
\* fed after the corpus was selected).
PredictionUsesLiveContext ==
  (/\ ret.op = "predictNextCharacter"
   /\ ret.args[1] = Null
   /\ ~thrown
   /\ Len(activeCorpora) = 1
   /\ activeCorpora[1] \in DOMAIN corpora
   /\ corpora[activeCorpora[1]].model = model
   /\ context.head \in TrieNodes(heap, models[model].root)) =>
    LET p == getProbs(heap, models[model], context, size(vocab))
    IN ret.value = slice(sortByProbability(toPredictions(vocab, p, 1)), config.maxPredictions)

\* C7: removeCorpus('default') always raises and changes neither the corpus
\* mapping, nor the enabled flags, nor the active list; so 'default' is
\* always among the corpora, and getCorpora() lists it.
DefaultCorpusIsPermanent ==
  /\ [][(ret'.op = "removeCorpus" /\ ret'.args[1] = "default") =>
          /\ thrown'
          /\ UNCHANGED <<corpusKeys, corpora, activeCorpora>>]_vars
  /\ []("default" \in DOMAIN corpora /\ includes(corpusKeys, "default"))
  /\ []((ret.op = "getCorpora" /\ ret.args[1] = FALSE) => includes(ret.value, "default"))

\* C7 witness: removeCorpus('default') was refused while another corpus
\* existed and 'default' was not active.
RemoveDefaultRefused ==
  /\ ret.op = "removeCorpus"
  /\ ret.args[1] = "default"
  /\ thrown
  /\ Len(corpusKeys) >= 2
  /\ ~includes(activeCorpora, "default")

\* C8: useCorpora(names) raises whenever a listed name is not an existing
\* corpus, and then leaves every enabled flag, the active list and the
\* working model reference as they were, even when other listed names
\* exist; getCorpusInfo(name) raises for an unknown name.
UnknownCorpusIsRefused ==
  /\ [][(/\ ret'.op = "useCorpora"
         /\ \E i \in 1..Len(ret'.args[1]) : ret'.args[1][i] \notin DOMAIN corpora) =>
          /\ thrown'
          /\ UNCHANGED <<corpusKeys, corpora, activeCorpora, model>>]_vars
  /\ []((ret.op = "getCorpusInfo" /\ ret.args[1] \notin DOMAIN corpora) => thrown)

\* C8, for names that are neither corpora nor inherited property names:
\* useCorpora raises when such a name is listed and then changes nothing,
\* and getCorpusInfo raises for such a name.
MissingCorpusIsRefused ==
  /\ [][(/\ ret'.op = "useCorpora"
         /\ \E i \in 1..Len(ret'.args[1]) : ~corpusExists(corpora, ret'.args[1][i])) =>
          /\ thrown'
          /\ UNCHANGED <<corpusKeys, corpora, activeCorpora, model>>]_vars
  /\ []((ret.op = "getCorpusInfo" /\ ~corpusExists(corpora, ret.args[1])) => thrown)

\* C8 witness: useCorpora was refused for a list that names an existing,
\* disabled corpus first and an unknown one after it.
UseCorporaRefusedMidList ==
  /\ ret.op = "useCorpora"
  /\ thrown
  /\ Len(ret.args[1]) = 2
  /\ ret.args[1][1] \in DOMAIN corpora
  /\ ~corpora[ret.args[1][1]].enabled
  /\ ret.args[1][2] \notin DOMAIN corpora

\* C9: after any addTrainingCorpus (any enabled option, re-adding a name
\* included), useCorpora (any list of existing names), useAllCorpora and
\* removeCorpus calls, getCorpora(true) lists exactly the enabled corpora:
\* each listed name is a key of getCorpora(), is listed once, and a key is
\* listed iff getCorpusInfo(key).enabled is true. Stated for active lists
\* that hold no inherited property name, which is no existing name.
EnabledCorporaAreListed ==
  (/\ ret.op = "getCorpora"
   /\ ret.args[1] = TRUE
   /\ \A i \in 1..Len(activeCorpora) : activeCorpora[i] \notin InheritedNames) =>
    /\ \A i \in 1..Len(ret.value) : includes(corpusKeys, ret.value[i])
    /\ \A i, j \in 1..Len(ret.value) : i # j => ret.value[i] # ret.value[j]
    /\ \A k \in DOMAIN corpora : includes(ret.value, k) <=> corpora[k].enabled

---------------------------------------------------------------------------
(* The merge specification: corpora are added with their training text and *)
(* selected, the live context is fed without learning, and the next        *)
(* character is predicted from the active corpora. Models are of order 1.  *)
(* A prediction of known characters changes nothing but ret, so a run ends *)
(* with it.                                                                *)

MergeInit ==
  /\ \E useExclusion \in BOOLEAN :
       Constructor(PredictorConfig(1, FALSE, FALSE, MaxLimit, <<>>, useExclusion))
  /\ util = <<>>

\* The arrays of existing names useCorpora is called with
CorpusLists == {keys \in KeyLists : \A i \in 1..Len(keys) : keys[i] \in CorpusNames}

MergeNext ==
  /\ ret.op # "predictNextCharacter"
  /\ \/ \E corpusKey \in CorpusNames, text \in CorpusTexts, enabled \in BOOLEAN :
          AddTrainingCorpus(corpusKey, text, enabled, <<>>)
     \/ \E keys \in CorpusLists : UseCorpora(keys)
     \/ \E text \in ContextTexts : AddToContext(text, "null")
     \/ \E ctxArg \in ContextTexts \cup {Null} : PredictNextCharacter(ctxArg)

SpecMerge == MergeInit /\ [][MergeNext]_vars
\* The probabilities the k-th active corpus gave to the last
\* predictNextCharacter call: those of a context fed with the argument or,
\* without one, of the live context for 'default' and of an empty context
\* for another corpus
CorpusProbs(k) ==
  LET m == models[corpora[activeCorpora[k]].model]
      ctx == IF ret.args[1] # Null
             THEN feedContext(heap, m, vocab, createContext(m), toCharArray(ret.args[1])).ctx
             ELSE IF activeCorpora[k] = "default" THEN context ELSE createContext(m)
  IN getProbs(heap, m, ctx, size(vocab))

\* What each active corpus gave: the k-th vector is CorpusProbs(k)
AllCorpusProbs == [k \in 1..Len(activeCorpora) |-> CorpusProbs(k)]

\* The active corpora in whose result symbol i appeared
Appeared(cp, i) == {k \in DOMAIN cp : cp[k].num[i] > 0}

RECURSIVE SumOfProbs(_, _, _)
SumOfProbs(cp, i, ks) ==
  IF ks = {} THEN [num |-> 0, den |-> 1]
  ELSE LET k == CHOOSE x \in ks : TRUE
           rest == SumOfProbs(cp, i, ks \ {k})
       IN AddFractions(rest.num, rest.den, cp[k].num[i], cp[k].den)

\* The mean of the probabilities of symbol i over a set of active corpora
MeanOver(cp, i, ks) ==
  [num |-> SumOfProbs(cp, i, ks).num, den |-> SumOfProbs(cp, i, ks).den * Cardinality(ks)]

\* a.num/a.den = b.num/b.den, compared in lowest terms
SameFraction(a, b) ==
  /\ a.num \div Gcd(a.num, a.den) = b.num \div Gcd(b.num, b.den)
  /\ a.den \div Gcd(a.num, a.den) = b.den \div Gcd(b.num, b.den)

\* The symbols that appeared in the result of some active corpus
AppearedSymbols(cp) == {i \in 1..(size(vocab) - 1) : Appeared(cp, i) # {}}

\* The mean of each symbol that appeared, over the corpora where it did
MeansOfAppeared(cp) == [i \in AppearedSymbols(cp) |-> MeanOver(cp, i, Appeared(cp, i))]

\* value lists the symbols of means with their means, the most probable
\* first, cut to limit entries
ListsMeans(value, means, limit) ==
  /\ \A j \in 1..Len(value) :
       /\ \E i \in DOMAIN means :
            /\ value[j].text = <<vocab[i + 1]>>
            /\ SameFraction(value[j], means[i])
       /\ value[j].den > 0
       /\ 0 <= value[j].num
       /\ value[j].num <= value[j].den
  /\ \A j1, j2 \in 1..Len(value) :
       j1 < j2 => /\ value[j1].text # value[j2].text
                  /\ ~MoreProbable(value[j2], value[j1])
  /\ Len(value) = IF Cardinality(DOMAIN means) < limit
                  THEN Cardinality(DOMAIN means) ELSE limit
  /\ \A i \in DOMAIN means :
       (\A j \in 1..Len(value) : value[j].text # <<vocab[i + 1]>>) =>
         \A j \in 1..Len(value) : ~MoreProbable(means[i], value[j])

\* C15: when two or more corpora are active, predictNextCharacter returns
\* for each symbol the arithmetic mean of its probability over the active
\* corpora in whose result it appeared with probability > 0, sorted by that
\* mean descending and truncated to maxPredictions (the most probable
\* symbols are kept); every returned probability lies in [0, 1].
PredictionIsMeanOverCorpora ==
  (/\ ret.op = "predictNextCharacter"
   /\ ~thrown
   /\ Len(activeCorpora) >= 2
   /\ \A k \in 1..Len(activeCorpora) : activeCorpora[k] \in DOMAIN corpora) =>
    \A cp \in {AllCorpusProbs} :
      \A means \in {MeansOfAppeared(cp)} :
        ListsMeans(ret.value, means, config.maxPredictions)

\* C15 witness: two different active corpora gave some symbol different
\* probabilities, and the merged list was cut to maxPredictions.
MeanOfTwoCorporaTruncated ==
  /\ ret.op = "predictNextCharacter"
  /\ ~thrown
  /\ Len(activeCorpora) = 2
  /\ activeCorpora[1] # activeCorpora[2]
  /\ \A k \in 1..2 : activeCorpora[k] \in DOMAIN corpora
  /\ \E cp \in {AllCorpusProbs} :
       /\ \E i \in AppearedSymbols(cp) :
            /\ Appeared(cp, i) = {1, 2}
            /\ ~SameFraction([num |-> cp[1].num[i], den |-> cp[1].den],
                             [num |-> cp[2].num[i], den |-> cp[2].den])
            /\ \E j \in 1..Len(ret.value) : ret.value[j].text = <<vocab[i + 1]>>
       /\ Cardinality(AppearedSymbols(cp)) > config.maxPredictions
  /\ Len(ret.value) = config.maxPredictions

---------------------------------------------------------------------------
(* The soft specification: the operations that take a text or a word are   *)
(* called with texts, with the empty string and with values that are no    *)
(* strings, on a Predictor of order 1 with a lexicon. One corpus, or one   *)
(* corpus twice, is active at a time.                                      *)

\* The empty string, null or undefined, and a truthy value that is no string
SoftTexts == {<<>>, Null, NotAString}

SoftInit ==
  /\ Constructor(PredictorConfig(1, FALSE, FALSE, MaxLimit, <<<<"a", "b">>>>, FALSE))
  /\ util = <<>>

SoftNext ==
  \/ \E text \in SoftTexts \cup {<<"b", " ", "a">>} : Train(text)
  \/ \E text \in SoftTexts \cup {<<"b", " ", "a">>} :
       AddTrainingCorpus("medical", text, FALSE, <<>>)
  \/ \E keys \in {<<"medical", "medical">>, <<"default", "constructor">>} : UseCorpora(keys)
  \/ \E text \in SoftTexts \cup {<<"b">>}, update \in {"null", "true"} :
       AddToContext(text, update)
  \/ \E ctxArg \in SoftTexts \cup {<<"b">>} : PredictNextCharacter(ctxArg)
  \/ \E partialWord \in SoftTexts \cup {<<"a">>} : PredictWordCompletion(partialWord)
  \/ \E currentWord \in SoftTexts \cup {<<"b">>} : PredictNextWord(currentWord, MaxLimit)
  \/ \E bigramText \in SoftTexts \cup {<<"b", " ", "a", " ", "2">>} : ImportBigrams(bigramText)

SpecSoft == SoftInit /\ [][SoftNext]_vars

\* The operations that take a text or a word
SoftOperations ==
  {"train", "addTrainingCorpus", "addToContext", "predictNextCharacter",
   "predictWordCompletion", "predictNextWord", "importBigrams"}

\* The text or word a call was given
TextArgument(call) == IF call.op = "addTrainingCorpus" THEN call.args[2] ELSE call.args[1]

\* The call was given an empty string or a value that is no string for its
\* text or word (a predictNextCharacter call without override is none)
SoftCall(call) ==
  /\ call.op \in SoftOperations
  /\ TextArgument(call) \in SoftTexts
  /\ call.op = "predictNextCharacter" => TextArgument(call) # Null

\* C16 as stated: every operation that takes a text or word argument
\* (train, addTrainingCorpus, addToContext, predictNextCharacter with an
\* override, predictWordCompletion, predictNextWord, importBigrams), given
\* an empty string or a non-string value for it, returns an empty result or
\* nothing, raises no error, and leaves tries, corpora, live context and
\* bigram table unchanged.
SoftConditionsNeverRaise ==
  [][SoftCall(ret') =>
       /\ ~thrown'
       /\ ret'.value = <<>>
       /\ UNCHANGED <<heap, models, corpusKeys, corpora, activeCorpora, context,
                      bigrams, totalBigrams>>]_vars

\* C16 amended: given an empty string or a non-string value, every one of
\* these operations leaves tries, vocabulary, corpora, live context and
\* bigram table unchanged; train, addToContext, predictWordCompletion,
\* predictNextWord and importBigrams return an empty result or nothing and
\* raise no error; addTrainingCorpus raises; predictNextCharacter predicts
\* from an empty context (for one active corpus: the distribution of that
\* corpus's model at its root, cut to maxPredictions).
SoftConditionsChangeNothing ==
  [][SoftCall(ret') =>
       /\ UNCHANGED <<heap, models, vocab, corpusKeys, corpora, activeCorpora, context,
                      bigrams, totalBigrams>>
       /\ ret'.op = "addTrainingCorpus" => thrown'
       /\ ret'.op \notin {"addTrainingCorpus", "predictNextCharacter"} =>
            ~thrown' /\ ret'.value = <<>>
       /\ (/\ ret'.op = "predictNextCharacter"
           /\ Len(activeCorpora) = 1
           /\ activeCorpora[1] \in DOMAIN corpora) =>
            /\ ~thrown'
            /\ \A m \in {models[corpora[activeCorpora[1]].model]} :
                 ret'.value = slice(sortByProbability(toPredictions(vocab,
                                getProbs(heap, m, createContext(m), size(vocab)), 1)),
                                    config.maxPredictions)]_vars

\* C16 witness: after training and feeding the live context, a
\* predictNextCharacter call with a value that is no string returned the
\* prediction for the empty context.
SoftOverridePredicted ==
  /\ ret.op = "predictNextCharacter"
  /\ ret.args[1] = NotAString
  /\ ~thrown
  /\ ret.value # <<>>
  /\ context.order > 0
  /\ bigrams # <<>>

---------------------------------------------------------------------------
(* The query specification: a predictor with a lexicon is trained, its     *)
(* live context is fed, and the three prediction queries are asked,        *)
(* predictNextCharacter also with a character outside printable ASCII.     *)

\* Stands for one character the constructor does not register, such as
\* e with an acute accent
Unseen == "e-acute"

QueryTexts == {Null, <<"b">>, <<"b", Unseen>>}

QueryInit ==
  /\ Constructor(PredictorConfig(1, FALSE, FALSE, MaxLimit, <<<<"a", "b">>>>, FALSE))
  /\ util = <<>>

QueryNext ==
  \/ Train(<<"b", " ", "a">>)
  \/ \E text \in ContextTexts : AddToContext(text, "null")
  \/ \E ctxArg \in QueryTexts : PredictNextCharacter(ctxArg)
  \/ \E partialWord \in {<<"a">>, <<"b">>} : PredictWordCompletion(partialWord)
  \/ \E currentWord \in {<<"a">>, <<"b">>} : PredictNextWord(currentWord, MaxLimit)

SpecQuery == QueryInit /\ [][QueryNext]_vars

\* What predictNextCharacter would return in a state of the predictor
NextCharacterGiven(h, ms, v, cs, live, active, ctxArg) ==
  predictNextCharacter(h, ms, v, cs, live, active, ctxArg, config.maxPredictions).value

\* C24: prediction queries are read-only and repeatable: predictNextCharacter
\* (with or without an override string, including one containing characters
\* never seen before), predictWordCompletion and predictNextWord leave
\* every corpus trie, the live context, the shared vocabulary and the
\* bigram table unchanged, so executing any such query does not change the
\* result of any later query.
QueriesAreReadOnly ==
  [][ret'.op \in {"predictNextCharacter", "predictWordCompletion", "predictNextWord"} =>
       /\ UNCHANGED <<heap, models, corpora, context, vocab, bigrams, totalBigrams>>
       /\ \A ctxArg \in {Null, <<"b">>} :
            NextCharacterGiven(heap', models', vocab', corpora', context', activeCorpora',
                               ctxArg)
            = NextCharacterGiven(heap, models, vocab, corpora, context, activeCorpora,
                                 ctxArg)]_vars

\* C24 witness: predictNextCharacter was given an override with a
\* character never seen before, after training, and returned predictions.
UnseenCharacterAsked ==
  /\ ret.op = "predictNextCharacter"
  /\ ret.args[1] = <<"b", Unseen>>
  /\ ret.value # <<>>
  /\ ~thrown
  /\ Len(heap) > 1

---------------------------------------------------------------------------
(* The rank specification: corpora whose lexicons list their words in      *)
(* frequency order, with and without upper case, are added and selected,   *)
(* and completions are asked in strict mode.                               *)

RankLexicons ==
  {<<<<"A", "b">>, <<"a">>, <<"a", "a">>>>,
   <<<<"a", "a">>, <<"a", "b">>, <<"A", "b">>>>}

RankInit ==
  /\ \E caseSensitive \in BOOLEAN, lexicon \in RankLexicons :
       Constructor(PredictorConfig(1, caseSensitive, FALSE, MaxLimit, lexicon, FALSE))
  /\ util = <<>>

RankNext ==
  \/ \E lexicon \in RankLexicons :
       AddTrainingCorpus("medical", <<"b", " ", "a">>, TRUE, lexicon)
  \/ \E keys \in {<<"default">>, <<"medical">>, <<"medical", "default">>} :
       UseCorpora(keys)
  \/ \E partialWord \in {<<"a">>, <<"A">>, <<"a", "b">>} : PredictWordCompletion(partialWord)

SpecRank == RankInit /\ [][RankNext]_vars

\* The partial word as predictWordCompletion hands it to the lexicon path
NormalizedPartial(partialWord) ==
  IF config.caseSensitive THEN partialWord ELSE toLowerCase(partialWord)

\* The 0-based position of the first entry of a raw lexicon list that is
\* the word under the case setting; the length of the list if there is none
EntryPosition(lexicon, word) ==
  LET at == {i \in 1..Len(lexicon) :
               (IF config.caseSensitive THEN lexicon[i] ELSE toLowerCase(lexicon[i])) = word}
  IN IF at = {} THEN Len(lexicon)
     ELSE (CHOOSE i \in at : \A j \in at : i <= j) - 1

\* The active corpora, in order, whose prefix lookup produces the word
Producers(word, partialWord) ==
  SelectSeq(activeCorpora,
            LAMBDA k : /\ k \in DOMAIN corpora
                       /\ Len(corpora[k].lexiconIndex) > 0
                       /\ includes(collect(corpora[k].lexiconTrie, partialWord,
                                           config.maxPredictions * 2), word))

\* C25: in predictWordCompletion's lexicon path each candidate word appears
\* once in the result, and the frequency rank used to score it equals the
\* position (0-based index) of that word's entry in the raw lexicon list of
\* the first active corpus that produced it, for every lexicon accepted by
\* the predictor (including lexicons whose entries are not already
\* case-normalized); only a candidate absent from that list gets the list
\* length as rank.
RankIsPositionInLexicon ==
  (ret.op = "predictWordCompletion" /\ hasLexicon(corpora, activeCorpora)) =>
    \A partialWord \in {NormalizedPartial(ret.args[1])} :
      \A candidates \in {lexiconCandidates(corpora, activeCorpora, partialWord, config, <<>>)} :
        /\ \A i, j \in 1..Len(candidates) : candidates[i].key = candidates[j].key => i = j
        /\ \A i \in 1..Len(candidates) :
             /\ Producers(candidates[i].key, partialWord) # <<>>
             /\ candidates[i].count =
                  EntryPosition(corpora[Producers(candidates[i].key, partialWord)[1]].lexicon,
                                candidates[i].key)

\* C25 witness: a completion was returned for a word whose entry in the
\* raw lexicon list is written with an upper-case letter, case being
\* ignored.
UpperCaseEntryCompleted ==
  /\ ret.op = "predictWordCompletion"
  /\ ~config.caseSensitive
  /\ ~thrown
  /\ \E i \in 1..Len(ret.value) :
       /\ ret.value[i].text = <<"a", "b">>
       /\ ~includes(corpora[activeCorpora[1]].lexicon, <<"a", "b">>)

---------------------------------------------------------------------------
(* The lexicon specification: corpora with word lists are added, selected  *)
(* and removed, and partial words are completed.                           *)

\* Word lists, most frequent word first
Lexicons ==
  {<<>>,
   <<<<"a", "b">>, <<"b">>, <<"A", "b">>, <<"a">>>>,
   <<<<"a", "a">>, <<"b", "a">>, <<>>, <<"a", "b", "a">>>>}

PartialWords == {<<"a">>, <<"A">>, <<"b">>, <<"a", "b">>, <<"a", "c">>, <<>>}

LexiconInit ==
  /\ \E caseSensitive \in BOOLEAN, lexicon \in Lexicons :
       Constructor(PredictorConfig(1, caseSensitive, FALSE, MaxLimit, lexicon, FALSE))
  /\ util = <<>>

LexiconNext ==
  \/ \E corpusKey \in CorpusNames, lexicon \in Lexicons :
       AddTrainingCorpus(corpusKey, <<"b", " ", "a">>, TRUE, lexicon)
  \/ \E keys \in {k \in KeyLists : \A i \in 1..Len(k) : k[i] \in CorpusNames} :
       UseCorpora(keys)
  \/ UseAllCorpora
  \/ \E corpusKey \in CorpusNames : RemoveCorpus(corpusKey)
  \/ \E partialWord \in PartialWords : PredictWordCompletion(partialWord)

SpecLexicon == LexiconInit /\ [][LexiconNext]_vars

\* String.prototype.startsWith
StartsWith(word, prefix) ==
  Len(word) >= Len(prefix) /\ SubSeq(word, 1, Len(prefix)) = prefix

\* C10: in strict mode, when some active corpus has a non-empty lexicon,
\* every word predictWordCompletion(partial) returns starts with the
\* case-normalized partial word and is in the lexicon index of an active
\* corpus; a word that only an inactive corpus's lexicon holds is never
\* returned.
CompletionsComeFromActiveLexicons ==
  (ret.op = "predictWordCompletion" /\ hasLexicon(corpora, activeCorpora)) =>
    \A i \in 1..Len(ret.value) :
      /\ StartsWith(ret.value[i].text,
                    IF config.caseSensitive THEN ret.args[1] ELSE toLowerCase(ret.args[1]))
      /\ \E j \in 1..Len(activeCorpora) :
           includes(corpora[activeCorpora[j]].lexiconIndex, ret.value[i].text)

\* C10 witness: completions were returned while an inactive corpus held a
\* word with the same prefix that no active corpus holds.
CompletionSkipsInactiveLexicon ==
  /\ ret.op = "predictWordCompletion"
  /\ ret.value # <<>>
  /\ \E k \in DOMAIN corpora :
       /\ ~includes(activeCorpora, k)
       /\ \E i \in 1..Len(corpora[k].lexiconIndex) :
            /\ StartsWith(corpora[k].lexiconIndex[i], toLowerCase(ret.args[1]))
            /\ \A j \in 1..Len(activeCorpora) :
                 ~includes(corpora[activeCorpora[j]].lexiconIndex, corpora[k].lexiconIndex[i])

---------------------------------------------------------------------------
(* The fuzzy specification: a Predictor in error-tolerant mode, whose      *)
(* corpora have lexicons of near words. util holds the maxEditDistance (in *)
(* halves) and the minSimilarity (a fraction) the constructor was given.   *)

\* maxEditDistance options: 0, 0.5, 1 and 2
EditDistances == {0, 1, 2, 4}

\* minSimilarity options: 0, 1/2, 3/4 and 1
Similarities == {[num |-> 0, den |-> 1], [num |-> 1, den |-> 2], [num |-> 3, den |-> 4],
                 [num |-> 1, den |-> 1]}

FuzzyLexicons ==
  {<<>>,
   <<<<"a", "b">>, <<"a", "s", "b">>, <<"s", "s">>>>,
   <<<<"b", "a", "b">>, <<"a", "a">>, <<"b">>>>}

FuzzyWords == {<<"a">>, <<"a", "b">>, <<"a", "a">>, <<"s", "b">>, <<"a", "b", "b">>}

FuzzyInit ==
  \E maxEditDistance \in EditDistances, minSimilarity \in Similarities,
     keyboardAware \in BOOLEAN, lexicon \in FuzzyLexicons :
    /\ Constructor(ErrorTolerantConfig(
         PredictorConfig(1, FALSE, FALSE, MaxLimit + 1, lexicon, FALSE),
         maxEditDistance, minSimilarity, keyboardAware))
    /\ util = [maxEditDistance |-> maxEditDistance, minSimilarity |-> minSimilarity]

FuzzyNext ==
  \/ \E lexicon \in FuzzyLexicons, enabled \in BOOLEAN :
       AddTrainingCorpus("medical", <<"b", " ", "a">>, enabled, lexicon)
  \/ \E keys \in {k \in KeyLists : \A i \in 1..Len(k) : k[i] \in CorpusNames} :
       UseCorpora(keys)
  \/ \E partialWord \in FuzzyWords : PredictWordCompletion(partialWord)

SpecFuzzy == FuzzyInit /\ [][FuzzyNext]_vars

\* The words of the lexicon indexes of the active corpora
ActiveLexiconWords ==
  UNION {{corpora[activeCorpora[j]].lexiconIndex[i] :
            i \in 1..Len(corpora[activeCorpora[j]].lexiconIndex)} :
         j \in 1..Len(activeCorpora)}

\* The distance, in halves, under the configured distance function
ConfiguredDistance(a, b) ==
  IF config.keyboardAware THEN keyboardAwareDistance(a, b, qwertyAdjacency)
  ELSE 2 * levenshteinDistance(a, b)

\* The active lexicon words within maxEditDistance (in halves) of the
\* partial word and at least minSimilarity similar to it
NearWords(partialWord, maxEditDistance, minSimilarity) ==
  {t \in ActiveLexiconWords :
     /\ ConfiguredDistance(partialWord, t) <= maxEditDistance
     /\ isSimilar(partialWord,
                  [term |-> t, distance |-> ConfiguredDistance(partialWord, t)],
                  minSimilarity)}

\* The candidates of the last predictWordCompletion call
CandidateWords ==
  LET candidates == lexiconCandidates(corpora, activeCorpora, toLowerCase(ret.args[1]),
                                      config, <<>>)
  IN {candidates[i].key : i \in 1..Len(candidates)}

\* The near words are candidates, and are returned when the candidates are
\* no more than maxPredictions
NearWordsAreReturned(maxEditDistance, minSimilarity) ==
  (/\ ret.op = "predictWordCompletion"
   /\ Len(ret.args[1]) >= 2
   /\ hasLexicon(corpora, activeCorpora)) =>
    LET near == NearWords(toLowerCase(ret.args[1]), maxEditDistance, minSimilarity)
    IN /\ near \subseteq CandidateWords
       /\ Cardinality(CandidateWords) <= config.maxPredictions =>
            near \subseteq {ret.value[i].text : i \in 1..Len(ret.value)}

\* C11 as stated: in error-tolerant mode with configured maxEditDistance d
\* and minSimilarity m, for a partial word of length >= 2, every lexicon
\* word of an active corpus whose distance to the partial word is <= d and
\* whose similarity is >= m is a candidate, and is returned whenever the
\* candidates are no more than maxPredictions.
ConfiguredNearWordsAreReturned ==
  NearWordsAreReturned(util.maxEditDistance, util.minSimilarity)

\* C11 for the values getConfig() reports, which are the configured ones
\* unless 0 was configured: every lexicon word of an active corpus within
\* config.maxEditDistance and at least config.minSimilarity similar is a
\* candidate, and is returned whenever the candidates are no more than
\* maxPredictions.
EffectiveNearWordsAreReturned ==
  NearWordsAreReturned(config.maxEditDistance, config.minSimilarity)

\* C11 witness: a word that does not start with the partial word was
\* returned, from the lexicon of a corpus other than the first active one.
FuzzyMatchReturned ==
  /\ ret.op = "predictWordCompletion"
  /\ Len(activeCorpora) = 2
  /\ \E i \in 1..Len(ret.value) :
       /\ ~StartsWith(ret.value[i].text, toLowerCase(ret.args[1]))
       /\ ~includes(corpora[activeCorpora[1]].lexiconIndex, ret.value[i].text)

---------------------------------------------------------------------------
(* The utility specifications call one function of the library's utilities *)
(* (levenshteinDistance, BKTree, PrefixTrie) at a time; ret holds the call *)
(* and its result. No Predictor takes part, and a run is one call.         *)

\* The longest word of the utility specifications
MaxWordLen == 3

\* Letters of the words: a and s are adjacent keys, b is adjacent to neither
Letters == {"a", "s", "b"}

\* The words of up to n letters
WordsUpTo(n) == UNION {[1..len -> Letters] : len \in 0..n}

\* The variables of the Predictor and of the PPM model at rest
NoPredictor ==
  /\ heap = <<Node(rootSymbol, NullNode)>>
  /\ models = <<PPMLanguageModel(1, 1)>>
  /\ vocab = Vocabulary
  /\ ctxs = <<>>
  /\ probs = NoProbs
  /\ lastErr = FALSE
  /\ nUpdates = 0
  /\ config = <<>>
  /\ corpusKeys = <<>>
  /\ corpora = <<>>
  /\ activeCorpora = <<>>
  /\ model = 1
  /\ context = createContext(PPMLanguageModel(1, 1))
  /\ bigrams = <<>>
  /\ totalBigrams = 0
  /\ thrown = FALSE
  /\ nCalls = 0

atRest == <<ppmVars, config, corpusKeys, corpora, activeCorpora, model, context,
            bigrams, totalBigrams, thrown, nCalls>>

exceptRet == <<atRest, util>>

\* levenshteinDistance(str1, str2)
LevenshteinDistance(str1, str2) ==
  /\ ret.op = "none"
  /\ ret' = Call("levenshteinDistance", <<str1, str2>>, levenshteinDistance(str1, str2))
  /\ UNCHANGED exceptRet

DistanceInit ==
  /\ NoPredictor
  /\ util = <<>>
  /\ ret = Call("none", <<>>, 0)

DistanceNext ==
  \E str1, str2 \in WordsUpTo(MaxWordLen) : LevenshteinDistance(str1, str2)

SpecDistance == DistanceInit /\ [][DistanceNext]_vars

\* C14: for all strings a, b over a bounded alphabet,
\* levenshteinDistance(a, a) = 0, levenshteinDistance(a, b) =
\* levenshteinDistance(b, a), and levenshteinDistance("", a) = len(a).
LevenshteinIsSymmetric ==
  ret.op = "levenshteinDistance" =>
    /\ ret.args[1] = ret.args[2] => ret.value = 0
    /\ ret.value = levenshteinDistance(ret.args[2], ret.args[1])
    /\ ret.args[1] = <<>> => ret.value = Len(ret.args[2])

\* C14 witness: a distance between two different non-empty words of
\* different lengths that share letters, so that the distance is less than
\* the longer length and more than the difference of the lengths.
LevenshteinMixesEdits ==
  /\ ret.op = "levenshteinDistance"
  /\ Len(ret.args[1]) > Len(ret.args[2])
  /\ Len(ret.args[2]) > 0
  /\ ret.value < Len(ret.args[1])
  /\ ret.value > Len(ret.args[1]) - Len(ret.args[2])

---------------------------------------------------------------------------
(* The BK-tree specification: a tree with levenshteinDistance is built by  *)
(* insert calls and searched. util is [tree, inserted]: the tree and the   *)
(* set of the terms insert was called with.                                *)

\* The most insert calls of a run
MaxTerms == 3

\* The widest search
MaxDistance == 2

\* Terms and queries; the empty string is among them
TreeWords ==
  {<<>>, <<"a">>, <<"a", "b">>, <<"a", "s">>, <<"s", "b">>, <<"b", "a", "b">>,
   <<"a", "b", "s">>}

\* BKTree.insert(term)
BKInsert(term) ==
  /\ Cardinality(util.inserted) < MaxTerms
  /\ util' = [tree |-> bkInsert(util.tree, term), inserted |-> util.inserted \cup {term}]
  /\ ret' = Call("insert", <<term>>, <<>>)
  /\ UNCHANGED atRest

\* BKTree.search(query, maxDistance)
BKSearch(query, maxDistance) ==
  /\ ret' = Call("search", <<query, maxDistance>>, bkSearch(util.tree, query, 2 * maxDistance))
  /\ UNCHANGED <<atRest, util>>

BKTreeInit ==
  /\ NoPredictor
  /\ util = [tree |-> BKTree(FALSE), inserted |-> {}]
  /\ ret = Call("none", <<>>, 0)

BKTreeNext ==
  \/ \E term \in TreeWords : BKInsert(term)
  \/ \E query \in TreeWords, maxDistance \in (-1)..MaxDistance : BKSearch(query, maxDistance)

SpecBKTree == BKTreeInit /\ [][BKTreeNext]_vars

\* The terms a brute-force scan of the terms finds within maxDistance
BruteForce(terms, query, maxDistance) ==
  {t \in terms : levenshteinDistance(query, t) <= maxDistance}

\* search returned exactly the terms of the set found, each once and with
\* its distance to the query (results carry distances in halves)
SearchReturns(found) ==
  /\ {ret.value[i].term : i \in 1..Len(ret.value)} = found
  /\ \A i, j \in 1..Len(ret.value) : i # j => ret.value[i].term # ret.value[j].term
  /\ \A i \in 1..Len(ret.value) :
       ret.value[i].distance = 2 * levenshteinDistance(ret.args[1], ret.value[i].term)

\* C12 as stated: for a BK-tree built by any sequence of insert calls with
\* Levenshtein distance, search(q, d) returns exactly the inserted terms t
\* with levenshtein(q, t) <= d, each once and with its distance; an empty
\* tree or a negative d yields the empty list.
SearchFindsInsertedTerms ==
  ret.op = "search" =>
    /\ SearchReturns(BruteForce(util.inserted, ret.args[1], ret.args[2]))
    /\ (isEmpty(util.tree) \/ ret.args[2] < 0) => ret.value = <<>>

\* C12 amended: search(q, d) returns exactly the inserted non-empty terms t
\* with levenshtein(q, t) <= d, each once and with its distance (insert
\* ignores the empty string); an empty tree or a negative d yields the
\* empty list.
SearchFindsNonEmptyInsertedTerms ==
  ret.op = "search" =>
    /\ SearchReturns(BruteForce(util.inserted \ {<<>>}, ret.args[1], ret.args[2]))
    /\ (isEmpty(util.tree) \/ ret.args[2] < 0) => ret.value = <<>>

\* C12 witness: a search in a tree of three levels returned some of its
\* terms and not others.
SearchPrunesDeepTree ==
  /\ ret.op = "search"
  /\ ret.value # <<>>
  /\ Len(ret.value) < Len(util.tree.nodes)
  /\ \E n \in 2..Len(util.tree.nodes) : util.tree.nodes[n].children # <<>>

---------------------------------------------------------------------------
(* The keyboard specification: the BK-tree _buildCorpusLexicon builds for  *)
(* a predictor with keyboardAware true, over the QWERTY table or a custom  *)
(* keyboardAdjacencyMap, is searched. util is [tree, inserted]: the tree   *)
(* and the set of the terms inserted in it.                                *)

\* Object.entries of the custom keyboardAdjacencyMap values: a map with a
\* and b adjacent both ways (upper-case and longer keys, an empty
\* neighbour), and a map that lists b among the neighbours of a only
KeyboardMaps ==
  {<<[key |-> <<"A">>, neighbours |-> <<<<"B">>, <<"b", "s">>, <<>>>>],
     [key |-> <<"b", "a">>, neighbours |-> <<<<"a">>>>]>>,
   <<[key |-> <<"a">>, neighbours |-> <<<<"b">>>>]>>}

\* The lexicon entries: a and s are neighbours on the QWERTY table, a and
\* b are not
KeyboardWords == {<<"a">>, <<"b">>, <<"a", "a">>, <<"b", "b">>, <<"a", "s">>}

\* The lexicons of up to MaxTerms entries
KeyboardLexicons == UNION {[1..len -> KeyboardWords] : len \in 0..MaxTerms}

\* The configuration with keyboardAware true and a keyboardAdjacencyMap
WithAdjacencyMap(cfg, adjacencyMap) ==
  [k \in DOMAIN cfg \cup {"keyboardAdjacencyMap"} |->
     IF k = "keyboardAdjacencyMap" THEN adjacencyMap ELSE cfg[k]]

\* The tree of a corpus with the lexicon under the configuration
BuiltTree(cfg, lexicon) ==
  LET corpus == buildCorpusLexicon(Corpus(1, TRUE, lexicon), cfg)
  IN [tree |-> corpus.lexiconTree,
      inserted |-> {corpus.lexiconIndex[i] : i \in 1..Len(corpus.lexiconIndex)}]

KeyboardInit ==
  /\ NoPredictor
  /\ \E lexicon \in KeyboardLexicons :
       LET cfg == ErrorTolerantConfig(PredictorConfig(1, FALSE, FALSE, 10, lexicon, FALSE),
                                      0, [num |-> 0, den |-> 1], TRUE)
       IN \/ util = BuiltTree(cfg, lexicon)
          \/ \E adjacencyMap \in KeyboardMaps :
               util = BuiltTree(WithAdjacencyMap(cfg, adjacencyMap), lexicon)
  /\ ret = Call("none", <<>>, 0)

KeyboardNext ==
  \E query \in KeyboardWords, maxDistance \in 0..MaxDistance : BKSearch(query, maxDistance)

SpecKeyboard == KeyboardInit /\ [][KeyboardNext]_vars

\* The distance function of the tree is symmetric and obeys the triangle
\* inequality on the words
IsMetric(tree) ==
  /\ \A a, b \in KeyboardWords : distanceFn(tree, a, b) = distanceFn(tree, b, a)
  /\ \A a, b, c \in KeyboardWords :
       distanceFn(tree, a, c) <= distanceFn(tree, a, b) + distanceFn(tree, b, c)

\* C28 as stated: for a BK-tree built by the predictor with the
\* keyboard-aware distance, over the QWERTY table or any custom
\* keyboardAdjacencyMap after normalization, search(q, d) returns exactly
\* the inserted terms t with keyboardAwareDistance(q, t) <= d, and the
\* distance function of the tree is symmetric and obeys the triangle
\* inequality.
KeyboardSearchIsBruteForce ==
  ret.op = "search" =>
    /\ {ret.value[i].term : i \in 1..Len(ret.value)} =
         {t \in util.inserted : distanceFn(util.tree, ret.args[1], t) <= 2 * ret.args[2]}
    /\ IsMetric(util.tree)

\* C28 witness: a tree of several terms, measuring with a custom map that
\* lists b among the neighbours of a and not a among those of b, was
\* searched.
OneWayMapSearched ==
  /\ ret.op = "search"
  /\ Len(util.tree.nodes) > 1
  /\ "adjacency" \in DOMAIN util.tree
  /\ areKeysAdjacent("a", "b", util.tree.adjacency)
  /\ ~areKeysAdjacent("b", "a", util.tree.adjacency)
---------------------------------------------------------------------------
(* The configuration specification: a Predictor with a lexicon is given a  *)
(* second corpus and its configuration is updated. newConfig is a record   *)
(* of the fields given, among lexicon, caseSensitive, keyboardAware and    *)
(* keyboardAdjacencyMap (no field of the PPM model, so that                *)
(* _applyPPMConfigToModels is not called).                                 *)

\* { ...this.config, ...newConfig }
mergeConfig(cfg, newConfig) ==
  [k \in DOMAIN cfg \cup DOMAIN newConfig |->
     IF k \in DOMAIN newConfig THEN newConfig[k] ELSE cfg[k]]

\* Predictor._buildLexiconStructures: the default corpus takes the
\* configured lexicon and is rebuilt (this.keyboardAdjacency, which is
\* written here and read nowhere, is left out)
buildLexiconStructures(cs, cfg) ==
  IF "default" \in DOMAIN cs
  THEN [cs EXCEPT !["default"] =
          buildCorpusLexicon([cs["default"] EXCEPT !.lexicon = cfg.lexicon], cfg)]
  ELSE cs

\* Predictor.updateConfig: [config, corpora]. An array and an object are
\* truthy, so that a lexicon or keyboardAdjacencyMap given counts as
\* changed
updateConfig(cfg, cs, newConfig) ==
  LET merged == mergeConfig(cfg, newConfig)
      relevant == \E k \in {"lexicon", "caseSensitive", "keyboardAdjacencyMap",
                            "keyboardAware"} : k \in DOMAIN newConfig
      rebuilt == IF relevant /\ "lexicon" \in DOMAIN newConfig
                 THEN buildLexiconStructures(cs, merged) ELSE cs
  IN [config |-> merged,
      corpora |-> IF relevant /\ (\E k \in {"keyboardAdjacencyMap", "keyboardAware"} :
                                    k \in DOMAIN newConfig)
                  THEN [k \in DOMAIN rebuilt |-> buildCorpusLexicon(rebuilt[k], merged)]
                  ELSE rebuilt]

\* Predictor.updateConfig(newConfig)
UpdateConfig(newConfig) ==
  /\ ret' = Call("updateConfig", <<newConfig>>, <<>>)
  /\ thrown' = FALSE
  /\ config' = updateConfig(config, corpora, newConfig).config
  /\ corpora' = updateConfig(config, corpora, newConfig).corpora
  /\ UNCHANGED <<heap, models, vocab, corpusKeys, activeCorpora, model, context, bigrams,
                 totalBigrams, nCalls, ppmIdle, util>>

\* Lexicons with entries of both cases and an empty entry
ConfigLexicons ==
  {<<>>, <<<<"A", "b">>, <<"a">>>>, <<<<"a", "b">>, <<>>, <<"B">>>>}

\* The values updateConfig is called with
NewConfigs ==
  {[lexicon |-> lexicon] : lexicon \in ConfigLexicons}
  \cup {[caseSensitive |-> caseSensitive] : caseSensitive \in BOOLEAN}
  \cup {[keyboardAware |-> keyboardAware] : keyboardAware \in BOOLEAN}
  \cup {[keyboardAdjacencyMap |-> adjacencyMap] : adjacencyMap \in KeyboardMaps}
  \cup {[lexicon |-> lexicon, caseSensitive |-> caseSensitive] :
          lexicon \in ConfigLexicons \ {<<>>}, caseSensitive \in BOOLEAN}

ConfigInit ==
  /\ \E caseSensitive \in BOOLEAN, lexicon \in ConfigLexicons :
       Constructor(PredictorConfig(1, caseSensitive, FALSE, 10, lexicon, FALSE))
  /\ util = <<>>

ConfigNext ==
  \/ \E lexicon \in ConfigLexicons \ {<<>>} :
       Len(models) = 1 /\ AddTrainingCorpus("medical", <<"b", " ", "a">>, TRUE, lexicon)
  \/ \E newConfig \in NewConfigs : UpdateConfig(newConfig)

SpecConfig == ConfigInit /\ [][ConfigNext]_vars

\* The non-empty entries of a lexicon, normalized under caseSensitive
NormalizedEntries(lexicon, caseSensitive) ==
  {IF caseSensitive THEN lexicon[i] ELSE toLowerCase(lexicon[i]) :
     i \in {j \in 1..Len(lexicon) : Len(lexicon[j]) > 0}}

\* The tree measures with the distance function of the configuration
MeasuresAsConfigured(tree, cfg) ==
  /\ tree.keyboardAware = cfg.keyboardAware
  /\ "adjacency" \in DOMAIN tree <=>
       (cfg.keyboardAware /\ "keyboardAdjacencyMap" \in DOMAIN cfg)
  /\ "adjacency" \in DOMAIN tree => tree.adjacency = resolveAdjacencyMap(cfg)

\* C30 as stated: after any updateConfig call that changes lexicon,
\* caseSensitive, keyboardAware or keyboardAdjacencyMap, the exact-set
\* index, the prefix trie and the BK-tree of every corpus contain exactly
\* the non-empty entries of that corpus's lexicon normalized under the new
\* caseSensitive setting, the BK-tree measures with the new distance
\* function, and the same updateConfig applied once more changes nothing.
IndicesFollowConfiguration ==
  ret.op = "updateConfig" =>
    /\ \A k \in DOMAIN corpora :
         \A expected \in {NormalizedEntries(corpora[k].lexicon, config.caseSensitive)} :
           /\ {corpora[k].lexiconIndex[i] : i \in 1..Len(corpora[k].lexiconIndex)} = expected
           /\ corpora[k].lexiconTrie.words = expected
           /\ {corpora[k].lexiconTree.nodes[i].term :
                 i \in 1..Len(corpora[k].lexiconTree.nodes)} = expected
           /\ MeasuresAsConfigured(corpora[k].lexiconTree, config)
    /\ updateConfig(config, corpora, ret.args[1]) = [config |-> config, corpora |-> corpora]

\* C30 witness: updateConfig has changed caseSensitive alone, for a
\* predictor whose lexicons have upper-case entries.
CaseSensitivityChanged ==
  /\ ret.op = "updateConfig"
  /\ DOMAIN ret.args[1] = {"caseSensitive"}
  /\ \E k \in DOMAIN corpora :
       NormalizedEntries(corpora[k].lexicon, TRUE) # NormalizedEntries(corpora[k].lexicon, FALSE)

---------------------------------------------------------------------------
(* The prefix-trie specification: a trie is built by insert calls and its  *)
(* words are collected. util is [trie, inserted]: the trie and the set of  *)
(* the words insert was called with.                                       *)

\* Words and prefixes, of both cases; c begins no word
TrieWords ==
  {<<>>, <<"a">>, <<"B">>, <<"b">>, <<"a", "b">>, <<"a", "B">>, <<"B", "a">>, <<"c">>}

\* PrefixTrie.insert(word)
TrieInsert(word) ==
  /\ Cardinality(util.inserted) < MaxTerms
  /\ util' = [trie |-> trieInsert(util.trie, word), inserted |-> util.inserted \cup {word}]
  /\ ret' = Call("insert", <<word>>, <<>>)
  /\ UNCHANGED atRest

\* PrefixTrie.collect(prefix, limit)
TrieCollect(prefix, limit) ==
  /\ ret' = Call("collect", <<prefix, limit>>, collect(util.trie, prefix, limit))
  /\ UNCHANGED <<atRest, util>>

TrieInit ==
  /\ NoPredictor
  /\ util = [trie |-> PrefixTrie, inserted |-> {}]
  /\ ret = Call("none", <<>>, 0)

TrieNext ==
  \/ \E word \in TrieWords \ {<<"c">>} : TrieInsert(word)
  \/ \E prefix \in TrieWords, limit \in 0..(MaxLimit + 1) : TrieCollect(prefix, limit)

SpecTrie == TrieInit /\ [][TrieNext]_vars

\* The characters in the order of their UTF-16 code units, the order in
\* which the operators < and > and Array.prototype.sort compare strings
CodeUnits == <<" ", "0", "1", "2", "A", "B", "a", "b", "c", "é">>

\* The place of a character in an order of the characters
RankIn(order, c) == CHOOSE i \in 1..Len(order) : order[i] = c

\* x comes before y in the lexicographic order that an order of the
\* characters gives the words
LexLess(order, x, y) ==
  \/ Len(x) < Len(y) /\ SubSeq(y, 1, Len(x)) = x
  \/ \E i \in 1..Len(x) :
       /\ i <= Len(y)
       /\ SubSeq(x, 1, i - 1) = SubSeq(y, 1, i - 1)
       /\ RankIn(order, x[i]) < RankIn(order, y[i])

\* The inserted words that start with the prefix collect was called with
MatchingWords == {w \in util.inserted : StartsWith(w, ret.args[1])}

\* collect returned the first min(limit, number of matching words) of the
\* matching words in the ascending lexicographic order of an order of the
\* characters, and nothing else
CollectReturnsFirst(order) ==
  /\ \A i \in 1..Len(ret.value) : ret.value[i] \in MatchingWords
  /\ \A i \in 1..(Len(ret.value) - 1) : LexLess(order, ret.value[i], ret.value[i + 1])
  /\ Len(ret.value) = IF ret.args[2] <= Cardinality(MatchingWords)
                      THEN ret.args[2] ELSE Cardinality(MatchingWords)
  /\ \A w \in MatchingWords :
       (\A i \in 1..Len(ret.value) : ret.value[i] # w) =>
         \A i \in 1..Len(ret.value) : LexLess(order, ret.value[i], w)

\* C13 as stated: collect(prefix, limit) returns only inserted words that
\* start with prefix, without repeats, in ascending lexicographic order
\* (of the strings as JavaScript compares them, by code units), exactly
\* the first min(limit, number of matching words) of them; a prefix whose
\* path does not exist yields the empty list.
CollectIsLexicographic ==
  ret.op = "collect" =>
    /\ CollectReturnsFirst(CodeUnits)
    /\ ret.args[1] \notin util.trie.nodes => ret.value = <<>>

\* C13 amended: the same, in the ascending lexicographic order that the
\* collation of single characters by localeCompare gives the words.
CollectIsLexicographicByCollation ==
  ret.op = "collect" =>
    /\ CollectReturnsFirst(Collation)
    /\ ret.args[1] \notin util.trie.nodes => ret.value = <<>>

\* C13 witness: collect cut a list of three matching words, one of them a
\* prefix of another, down to two.
CollectTruncates ==
  /\ ret.op = "collect"
  /\ Len(ret.value) = 2
  /\ Cardinality(MatchingWords) = 3
  /\ \E w \in MatchingWords : StartsWith(w, ret.value[1]) /\ w # ret.value[1]

---------------------------------------------------------------------------
(* The completion specification: a predictor in strict mode whose only     *)
(* corpus has a lexicon in which many words share a prefix is trained and  *)
(* asked for completions.                                                  *)

\* Lexicons in frequency order: five words starting with a, the most
\* frequent of which is the last in alphabetical order
CompletionLexicons ==
  {<<<<"a", "c">>, <<"a">>, <<"a", "a">>, <<"a", "a", "a">>, <<"a", "b">>>>,
   <<<<"a", "b">>, <<"b">>, <<"a">>>>}

CompletionInit ==
  /\ \E lexicon \in CompletionLexicons :
       Constructor(PredictorConfig(1, FALSE, FALSE, MaxLimit, lexicon, FALSE))
  /\ util = <<>>

CompletionNext ==
  \/ \E text \in CorpusTexts : Train(text)
  \/ \E text \in ContextTexts : AddToContext(text, "null")
  \/ \E partialWord \in {<<"a">>, <<"A">>, <<"a", "a">>, <<"b">>, <<"c">>} :
       PredictWordCompletion(partialWord)

SpecCompletion == CompletionInit /\ [][CompletionNext]_vars

\* The words of the index of the only active corpus that start with the
\* partial word
PrefixMatches(partialWord) ==
  {w \in {corpora[activeCorpora[1]].lexiconIndex[i] :
            i \in 1..Len(corpora[activeCorpora[1]].lexiconIndex)} :
     StartsWith(w, partialWord)}

\* The greatest rank among words, at least 1
MaxRankOf(words) ==
  LET ranks == {EntryPosition(corpora[activeCorpora[1]].lexicon, w) : w \in words} \cup {1}
  IN CHOOSE r \in ranks : \A q \in ranks : q <= r

\* Word a scores higher than word b whatever their PPM scores in (0, 1]:
\* 0.7 * (rank b - rank a) / maxRank > 0.3
ScoresHigher(a, b, maxRank) ==
  7 * (EntryPosition(corpora[activeCorpora[1]].lexicon, b)
       - EntryPosition(corpora[activeCorpora[1]].lexicon, a)) > 3 * maxRank

\* C26: in strict mode with a single active corpus,
\* predictWordCompletion(partial) returns the min(maxPredictions, number of
\* matches) highest-scoring words, by score 0.7 * frequencyScore + 0.3 *
\* ppmScore, among ALL lexicon words that start with the partial word,
\* sorted by score descending: no prefix-matching word that scores higher
\* than a returned word is omitted, however many lexicon words share the
\* prefix.
CompletionsAreTopScoring ==
  (/\ ret.op = "predictWordCompletion"
   /\ ~thrown
   /\ Len(activeCorpora) = 1
   /\ hasLexicon(corpora, activeCorpora)) =>
    \A matches \in {PrefixMatches(NormalizedPartial(ret.args[1]))} :
      \A maxRank \in {MaxRankOf(matches)} :
        /\ Len(ret.value) = IF Cardinality(matches) < config.maxPredictions
                            THEN Cardinality(matches) ELSE config.maxPredictions
        /\ \A i \in 1..Len(ret.value) :
             /\ ret.value[i].text \in matches
             /\ \A j \in (i + 1)..Len(ret.value) :
                  ~ScoresHigher(ret.value[j].text, ret.value[i].text, maxRank)
             /\ \A w \in matches \ {ret.value[j].text : j \in 1..Len(ret.value)} :
                  ~ScoresHigher(w, ret.value[i].text, maxRank)

\* C26 witness: completions came back for a prefix that more than twice
\* maxPredictions words of the lexicon share.
ManyWordsSharePrefix ==
  /\ ret.op = "predictWordCompletion"
  /\ ~thrown
  /\ Len(activeCorpora) = 1
  /\ hasLexicon(corpora, activeCorpora)
  /\ Cardinality(PrefixMatches(NormalizedPartial(ret.args[1]))) > 2 * config.maxPredictions
  /\ Len(ret.value) = config.maxPredictions

---------------------------------------------------------------------------
\* The nodes under a node, each with the symbol string it spells
RECURSIVE Spellings(_, _, _)
Spellings(h, node, spelled) ==
  {<<node, spelled>>} \cup
  UNION {Spellings(h, children(h, node)[i],
                   Append(spelled, h[children(h, node)[i]].symbol)) :
           i \in 1..Len(children(h, node))}

\* The number of backoff links from a node to the root, -1 if the chain
\* ends at null or is longer than fuel
RECURSIVE BackoffSteps(_, _, _, _)
BackoffSteps(h, root, node, fuel) ==
  IF node = root THEN 0
  ELSE IF node = NullNode \/ fuel = 0 THEN -1
  ELSE LET rest == BackoffSteps(h, root, h[node].backoff, fuel - 1)
       IN IF rest = -1 THEN -1 ELSE rest + 1

\* C21: backoff-link invariant of the PPM trie: after any sequence of
\* addSymbolAndUpdate calls on contexts of the model, every non-root node
\* at depth k spelling s1..sk has a non-null backoff link to the existing
\* node spelling s2..sk (the root when k = 1), which stores the same
\* symbol when k > 1; the trie is suffix-closed and following backoff
\* links from any node reaches the root in exactly k steps.
BackoffLinksSpellSuffixes ==
  \A spellings \in {Spellings(heap, TheModel.root, <<>>)} :
    \A ns \in spellings :
      LET n == ns[1]
          s == ns[2]
      IN Len(s) >= 1 =>
           /\ heap[n].backoff # NullNode
           /\ <<heap[n].backoff, Tail(s)>> \in spellings
           /\ Len(s) = 1 => heap[n].backoff = TheModel.root
           /\ Len(s) > 1 => heap[heap[n].backoff].symbol = heap[n].symbol
           /\ BackoffSteps(heap, TheModel.root, n, Len(heap)) = Len(s)

\* C21 witness: updates through the handles have grown a node of depth 2
\* or more, whose backoff link is a node other than the root.
DeepNodeBacksOff ==
  \E ns \in Spellings(heap, TheModel.root, <<>>) :
    /\ Len(ns[2]) >= 2
    /\ heap[ns[1]].backoff \notin {NullNode, TheModel.root}
    /\ nUpdates = MaxUpdates

---------------------------------------------------------------------------
\* str ends with suffix
IsSuffix(suffix, str) ==
  /\ Len(suffix) <= Len(str)
  /\ \A k \in 1..Len(suffix) : suffix[k] = str[Len(str) - Len(suffix) + k]

\* Where addSymbolToContext is to leave a handle: at the node spelling the
\* longest non-empty suffix of (the string of its head, then symbol) that
\* is in the trie and no longer than maxOrder, at the root if there is none
LongestSuffixContext(h, m, ctx, symbol) ==
  LET spellings == Spellings(h, m.root, <<>>)
      old == CHOOSE ns \in spellings : ns[1] = ctx.head
      fed == Append(old[2], symbol)
      found == {ns \in spellings : /\ Len(ns[2]) >= 1
                                   /\ Len(ns[2]) <= m.maxOrder
                                   /\ IsSuffix(ns[2], fed)}
  IN IF found = {} THEN Context(m.root, 0)
     ELSE LET longest == CHOOSE ns \in found :
                           \A other \in found : Len(other[2]) <= Len(ns[2])
          IN Context(longest[1], Len(longest[2]))

---------------------------------------------------------------------------
\* The non-empty contiguous substrings of str no longer than longest
SubstringsOf(str, longest) ==
  UNION {{SubSeq(str, i, j) : j \in {k \in i..Len(str) : k - i + 1 <= longest}} :
           i \in 1..Len(str)}

\* C23: feeding a symbol sequence t through addSymbolAndUpdate from a
\* fresh context on an empty model yields a trie that contains a node
\* spelling w if and only if w is a non-empty contiguous substring of t of
\* length <= maxOrder + 1; the model's node counter equals the number of
\* nodes in the trie (root included), and every node count is >= 1.
FedTrieHoldsSubstrings ==
  \A spellings \in {Spellings(heap, TheModel.root, <<>>)} :
    /\ {ns[2] : ns \in spellings} \ {<<>>} = SubstringsOf(util, TheModel.maxOrder + 1)
    /\ TheModel.numNodes = Cardinality(spellings)
    /\ TheModel.numNodes = Len(heap)
    /\ \A ns \in spellings : heap[ns[1]].count >= 1

\* C23 witness: a sequence of two different symbols, longer than
\* maxOrder + 1 and with a repeated symbol, has been fed.
LongSequenceFed ==
  /\ Len(util) = MaxFeed
  /\ Len(util) > TheModel.maxOrder + 1
  /\ \E i, j \in DOMAIN util : util[i] # util[j]
  /\ \E n \in DOMAIN heap : heap[n].count >= 2 /\ n # TheModel.root
  /\ ~lastErr

---------------------------------------------------------------------------
\* The nodes of the trie at a depth under a node
RECURSIVE NodesAtDepth(_, _, _)
NodesAtDepth(h, node, depth) ==
  IF depth = 0 THEN {node}
  ELSE UNION {NodesAtDepth(h, children(h, node)[i], depth - 1) :
                i \in 1..Len(children(h, node))}

\* Every handle's head is a node of the model's trie, its order is the
\* depth of its head, and 0 <= order <= maxOrder
HandlesAreValid ==
  \A i \in DOMAIN ctxs :
    /\ 0 <= ctxs[i].order
    /\ ctxs[i].order <= TheModel.maxOrder
    /\ ctxs[i].head \in NodesAtDepth(heap, TheModel.root, ctxs[i].order)

\* A step changes the head or order of at most one handle, and none when
\* it makes a new handle, which then starts at the root or where the cloned
\* handle is
OneHandleMoves ==
  /\ Len(ctxs') >= Len(ctxs)
  /\ \A i, j \in DOMAIN ctxs : i # j => (ctxs'[i] = ctxs[i] \/ ctxs'[j] = ctxs[j])
  /\ Len(ctxs') > Len(ctxs) =>
       /\ \A i \in DOMAIN ctxs : ctxs'[i] = ctxs[i]
       /\ Len(ctxs') = Len(ctxs) + 1
       /\ \/ ctxs'[Len(ctxs')] = [head |-> TheModel.root, order |-> 0]
          \/ \E i \in DOMAIN ctxs : ctxs'[Len(ctxs')] = ctxs[i]

\* C20: context handles of one PPM model are independent: for any
\* interleaving of addSymbolAndUpdate on one context with
\* addSymbolToContext, cloneContext and getProbs on other contexts of the
\* same model, (a) an operation on one handle never changes another
\* handle's head or order (a clone advances without affecting its
\* original), and (b) every handle always satisfies: head is a node of the
\* model's trie, order equals the depth of head, and 0 <= order <= maxOrder.
ContextHandlesAreIndependent ==
  /\ [][OneHandleMoves]_vars
  /\ []HandlesAreValid

\* C20 witness: two handles stand at different nodes of a trie that an
\* update through one of them has grown to the full depth, the other
\* being where it was made.
HandlesApart ==
  /\ Len(ctxs) = 2
  /\ ctxs[1].head # ctxs[2].head
  /\ \E i \in 1..2 : ctxs[i].order = TheModel.maxOrder
  /\ \E i \in 1..2 : ctxs[i].order = 0
  /\ nUpdates = MaxUpdates
  /\ NodesAtDepth(heap, TheModel.root, TheModel.maxOrder + 1) # {}

---------------------------------------------------------------------------
\* C1: getProbs returns, for every trained model and every context, a
\* vector whose entries are all >= 0, whose entry 0 (root) is exactly 0,
\* and whose entries for the non-root symbols sum to 1; it raises nothing.
GetProbsIsDistribution ==
  probs # NoProbs =>
    /\ ~probs.err
    /\ DOMAIN probs.num = 0..(size(vocab) - 1)
    /\ \A i \in DOMAIN probs.num : probs.num[i] >= 0
    /\ probs.num[rootSymbol] = 0
    /\ sumFrom(probs.num, 1, size(vocab)) = probs.den
    /\ probs.den > 0

\* C1 witness: a distribution returned for a context of order >= 1 in a
\* trie where that context's node and the root both have children, so that
\* the estimate blends two orders and the uniform distribution.
GetProbsBlendsOrders ==
  /\ probs # NoProbs
  /\ \E i \in DOMAIN ctxs :
       /\ ctxs[i].order >= 1
       /\ TheModel.root # ctxs[i].head
       /\ heap[ctxs[i].head].child # NullNode
       /\ getProbs(heap, TheModel, ctxs[i], size(vocab)) = probs
  /\ \E i, j \in DOMAIN probs.num : i # j /\ probs.num[i] > probs.num[j] /\ probs.num[j] > 0

=============================================================================
